---- MODULE Spec2Model ----
(***************************************************************************)
(* Survey response core of torijune/survey_page: the response lifecycle    *)
(* (start / save items / submit) over the responses and response_items     *)
(* tables, the response validator, the question numbering scheme, the      *)
(* statistics aggregator, the CSV and workbook export renderers, and the    *)
(* partial updates of questions and sections.                              *)
(*                                                                         *)
(* Python values are a tagged union, so that None, numbers, booleans,      *)
(* strings, lists and mappings stay distinct and str() is a real           *)
(* conversion.  Text is a sequence of one-character strings.               *)
(***************************************************************************)
EXTENDS Integers, Sequences, FiniteSets, TLC

\* ------------------------------------------------------------------ bounds
\* responses that start_response may create
MaxResponses == 2
\* items in one request of the response lifecycle
MaxItems == 2
\* start, save and submit requests received in one run
MaxCalls == 4
\* items in one request handed to the validator
MaxValItems == 2
\* sections of a survey handed to the numbering scheme
MaxSections == 2
\* questions of a survey handed to the numbering scheme
MaxQuestions == 4
\* responses with a list-valued answer handed to the aggregator
MaxStatResponses == 2
\* elements of a list-valued answer handed to the aggregator
MaxListLen == 2
\* responses with a scalar or Likert answer handed to the aggregator
MaxNumResponses == 3
\* free text of an exported answer has at most this many characters
MaxTextLen == 2
\* export calls in one run over the same stored data
MaxExports == 2
\* seconds the wall clock advances during those calls
MaxTicks == 1
\* characters of a text checked against the email pattern
MaxEmailLen == 6

\* ------------------------------------------------------------ Python values
None == [kind |-> "none"]
Num(n) == [kind |-> "num", n |-> n]
Bool(b) == [kind |-> "bool", b |-> b]
Str(s) == [kind |-> "str", s |-> s]
List(l) == [kind |-> "list", l |-> l]
\* a mapping keeps its (key, value) pairs in insertion order
Dict(d) == [kind |-> "dict", d |-> d]

\* bool(v): the truth value Python gives v in `if v` / `not v`
Truthy(v) ==
    CASE v.kind = "none" -> FALSE
      [] v.kind = "bool" -> v.b
      [] v.kind = "num" -> v.n # 0
      [] v.kind = "str" -> v.s # << >>
      [] v.kind = "list" -> v.l # << >>
      [] v.kind = "dict" -> v.d # << >>
      [] OTHER -> TRUE

\* isinstance(v, (int, float)); bool is a subclass of int
IsNumeric(v) == v.kind \in {"num", "bool"}

\* the number a numeric value stands for in arithmetic (True is 1, False is 0)
NumericValue(v) == IF v.kind = "bool" THEN (IF v.b THEN 1 ELSE 0) ELSE v.n

DigitChars == <<"0", "1", "2", "3", "4", "5", "6", "7", "8", "9">>

RECURSIVE NatStr(_)
NatStr(n) == IF n < 10 THEN <<DigitChars[n + 1]>>
             ELSE NatStr(n \div 10) \o <<DigitChars[(n % 10) + 1]>>

\* str(n) of an int
IntStr(n) == IF n < 0 THEN <<"-">> \o NatStr(0 - n) ELSE NatStr(n)

\* sep.join(parts), split in halves
RECURSIVE JoinText(_, _)
JoinText(parts, sep) ==
    IF Len(parts) = 0 THEN << >>
    ELSE IF Len(parts) = 1 THEN parts[1]
    ELSE LET half == Len(parts) \div 2
         IN JoinText(SubSeq(parts, 1, half), sep) \o sep
            \o JoinText(SubSeq(parts, half + 1, Len(parts)), sep)

\* str(v) of a scalar
ScalarStr(v) ==
    CASE v.kind = "none" -> <<"N", "o", "n", "e">>
      [] v.kind = "bool" -> IF v.b THEN <<"T", "r", "u", "e">>
                                   ELSE <<"F", "a", "l", "s", "e">>
      [] v.kind = "num" -> IntStr(v.n)
      [] v.kind = "str" -> v.s

\* repr(v) of a scalar: a string is quoted
ScalarRepr(v) == IF v.kind = "str" THEN <<"'">> \o v.s \o <<"'">> ELSE ScalarStr(v)

\* repr(v): what str() of a list or a mapping shows for each member, members
\* that are lists or mappings included
RECURSIVE PyRepr(_)
PyRepr(v) ==
    CASE v.kind = "list" ->
           <<"[">> \o JoinText([i \in 1..Len(v.l) |-> PyRepr(v.l[i])], <<",", " ">>) \o <<"]">>
      [] v.kind = "dict" ->
           <<"{">> \o JoinText([i \in 1..Len(v.d) |->
                        ScalarRepr(Str(v.d[i][1])) \o <<":", " ">> \o PyRepr(v.d[i][2])],
                        <<",", " ">>) \o <<"}">>
      [] OTHER -> ScalarRepr(v)

\* str(v): the string form used as a value_counts key and as an export cell
PyStr(v) == IF v.kind \in {"list", "dict"} THEN PyRepr(v) ELSE ScalarStr(v)

SeqUpTo(S, n) == UNION {[1..k -> S] : k \in 0..n}

\* --------------------------------------------------------------- entities
\* SurveyStatus
DRAFT == "draft"
PUBLISHED == "published"
CLOSED == "closed"

\* Optional[datetime] = None of Response.submitted_at; a set time is 1, 2, ...
NoTime == 0

ValidationRules(minl, maxl, minv, maxv, pat) ==
    [min_length |-> minl, max_length |-> maxl, min_value |-> minv,
     max_value |-> maxv, pattern |-> pat]

Question(id, sec, title, req, hidden, rules) ==
    [id |-> id, section_id |-> sec, title |-> title, required |-> req,
     is_hidden |-> hidden, validation_rules |-> rules]

Section(id, qs) == [id |-> id, questions |-> qs]

ResponseItem(q, v, t) == [question_id |-> q, answer_value |-> v, answer_text |-> t]

\* Response(survey_id=...): the row start_response inserts
Response(s) ==
    [survey_id |-> s, user_info_encrypted |-> None, user_info_hash |-> None,
     submitted_at |-> NoTime, is_complete |-> FALSE]

\* ------------------------------------------------- the stored survey graphs
\* The two surveys of the lifecycle model, as get_survey_by_id(include_details)
\* returns their sections: sA = [S0 (q1 required, q2, q3 hidden), S1 (q4)],
\* sB = [S2 (q5)].
SurveyIds == {"sA", "sB"}

Sections(s) ==
    IF s = "sA"
    THEN << Section("S0", << Question("q1", "S0", "T1", TRUE, FALSE, None),
                             Question("q2", "S0", "T2", FALSE, FALSE, None),
                             Question("q3", "S0", "T3", FALSE, TRUE, None) >>),
            Section("S1", << Question("q4", "S1", "T4", FALSE, FALSE, None) >>) >>
    ELSE << Section("S2", << Question("q5", "S2", "T5", FALSE, FALSE, None) >>) >>

\* ------------------------------------------------------ response validator
Ok == [kind |-> "ok"]
\* raise ValueError(f"...: {question.title}")
Err(kind, title) == [kind |-> kind, title |-> title]

\* item_map = {item.question_id: item for item in items}: a later entry for
\* the same question id overwrites an earlier one
RECURSIVE ItemMapUpTo(_, _)
ItemMapUpTo(items, k) ==
    IF k = 0 THEN [q \in {} |-> None]
    ELSE LET m == ItemMapUpTo(items, k - 1)
             key == items[k].question_id
         IN [q \in (DOMAIN m) \cup {key} |-> IF q = key THEN items[k] ELSE m[q]]

ItemMap(items) == ItemMapUpTo(items, Len(items))

\* item_map.get(key): None when the key is absent
MapGet(m, key) == IF key \in DOMAIN m THEN m[key] ELSE None

\* re.match(r"[^@]+@[^@]+\.[^@]+", text): the pattern is matched at the start
\* of the text and may stop before its end
EmailMatch(t) ==
    \E a \in 1..Len(t) : \E b \in 1..Len(t) :
        /\ a + 2 <= b
        /\ b + 1 <= Len(t)
        /\ \A i \in 1..(a - 1) : t[i] # "@"
        /\ a >= 2
        /\ t[a] = "@"
        /\ \A i \in (a + 1)..(b - 1) : t[i] # "@"
        /\ t[b] = "."
        /\ t[b + 1] # "@"

\* a required check that takes every falsy value for a missing answer
RequiredMissing_Falsy(item) ==
    item = None \/ (~Truthy(item.answer_value) /\ ~Truthy(item.answer_text))

\* line 320: not item or (item.answer_value is None and not item.answer_text)
RequiredMissing(item) ==
    item = None \/ (item.answer_value = None /\ ~Truthy(item.answer_text))

\* the body of the loop of _validate_response for one question
ValidateQuestion(question, item) ==
    IF question.required /\ RequiredMissing(item)
    THEN Err("required", question.title)
    ELSE IF item = None \/ question.validation_rules = None THEN Ok
    ELSE LET rules == question.validation_rules
             text_len == IF item.answer_text.kind = "str" THEN Len(item.answer_text.s) ELSE 0
             value == item.answer_value
             valueCheck ==
                 IF value # None /\ IsNumeric(value)
                 THEN IF rules.min_value # None /\ NumericValue(value) < rules.min_value.n
                      THEN Err("min_value", question.title)
                      ELSE IF rules.max_value # None /\ NumericValue(value) > rules.max_value.n
                      THEN Err("max_value", question.title)
                      ELSE Ok
                 ELSE Ok
         IN IF Truthy(item.answer_text)
            THEN IF Truthy(rules.min_length) /\ text_len < rules.min_length.n
                 THEN Err("min_length", question.title)
                 ELSE IF Truthy(rules.max_length) /\ text_len > rules.max_length.n
                 THEN Err("max_length", question.title)
                 ELSE IF rules.pattern = Str(<<"e", "m", "a", "i", "l">>)
                         /\ ~EmailMatch(item.answer_text.s)
                 THEN Err("pattern", question.title)
                 ELSE valueCheck
            ELSE valueCheck

\* for section in survey.sections: for question in section.questions
RECURSIVE AllQuestions(_)
AllQuestions(sections) ==
    IF sections = << >> THEN << >>
    ELSE sections[1].questions \o AllQuestions(Tail(sections))

\* a validator that reports the error of the last question with a violation
RECURSIVE FirstViolation_Reversed(_, _)
FirstViolation_Reversed(questions, item_map) ==
    IF questions = << >> THEN Ok
    ELSE LET r == FirstViolation_Reversed(Tail(questions), item_map)
         IN IF r # Ok THEN r
            ELSE ValidateQuestion(questions[1], MapGet(item_map, questions[1].id))

RECURSIVE FirstViolation(_, _)
FirstViolation(questions, item_map) ==
    IF questions = << >> THEN Ok
    ELSE LET r == ValidateQuestion(questions[1], MapGet(item_map, questions[1].id))
         IN IF r # Ok THEN r ELSE FirstViolation(Tail(questions), item_map)

\* _validate_response(survey, items): Ok, or the first error raised
ValidateResponse(sections, items) == FirstViolation(AllQuestions(sections), ItemMap(items))

\* --------------------------------------------------------- identity info
\* hashlib.sha256(user_info.encode()).hexdigest(): distinct texts give distinct digests
HashUserInfo(u) == [kind |-> "sha256", of |-> u.s]

\* base64.b64encode(user_info.encode()).decode()
EncryptUserInfo(u) == [kind |-> "b64", of |-> u.s]

\* a survey that refuses responses only once it is closed
CanAcceptResponses_NotClosed(st) == st # CLOSED

\* Survey.can_accept_responses
CanAcceptResponses(st) == st = PUBLISHED

\* ------------------------------------------------ question numbering scheme
\* _get_section_letter: chr(65 + section_index), the characters from code
\* point 65 on
GetSectionLetter(section_index) ==
    <<"A", "B", "C", "D", "E", "F", "G", "H", "I", "J", "K", "L", "M",
      "N", "O", "P", "Q", "R", "S", "T", "U", "V", "W", "X", "Y", "Z",
      "[">>[section_index + 1]

\* the first i (0-based) with seq[i].id = id, or -1
RECURSIVE IndexOfIdFrom(_, _, _)
IndexOfIdFrom(seq, id, i) ==
    IF i > Len(seq) THEN -1
    ELSE IF seq[i].id = id THEN i - 1
    ELSE IndexOfIdFrom(seq, id, i + 1)

IndexOfId(seq, id) == IndexOfIdFrom(seq, id, 1)

\* a numbering that counts hidden questions too
VisibleQuestions_All(questions) == questions

\* line 152: [q for q in section.questions if not q.is_hidden]
VisibleQuestions(questions) == SelectSeq(questions, LAMBDA q : ~q.is_hidden)

\* _get_question_number(survey, question)
GetQuestionNumber(sections, question) ==
    LET section_index == IndexOfId(sections, question.section_id)
    IN IF section_index = -1 THEN << >>
       ELSE LET section_letter == GetSectionLetter(section_index)
                section_questions == VisibleQuestions(sections[section_index + 1].questions)
                question_index == IndexOfId(section_questions, question.id)
            IN IF question_index = -1 THEN << >>
               ELSE <<section_letter>> \o IntStr(question_index + 1)

\* ------------------------------------------------------------------- state
VARIABLES
    status,               \* surveys.status, per survey id
    duplicate_prevention, \* surveys.duplicate_prevention, per survey id
    question_rows,        \* table questions: the editable columns of each question id
    section_rows,         \* table sections: the editable columns of each section id
    responses,            \* table responses: row i belongs to response id i
    response_items,       \* table response_items: the rows of each response id
    op,                   \* the request in flight on each response id, with its locals
                          \* (and checked_at: the clock when its duplicate check ran)
    returned,             \* what the last step returned or raised to its caller, if anything
    now,                  \* datetime.utcnow(), as the count of finalizations so far
    finalized,            \* history: response ids whose submit_response has returned
    calls,                \* history: start, save and submit requests received so far
    input,                \* argument of the operation under check (validator,
                          \* numbering, aggregator, export, edit); for an export
                          \* among overlapping requests, the locals of that call
    output,               \* its result
    done                  \* whether the operation has been applied

vars == <<status, duplicate_prevention, question_rows, section_rows, responses, response_items, op, returned, now,
          finalized, calls, input, output, done>>

pureVars == <<input, output, done>>
surveyVars == <<status, duplicate_prevention, question_rows, section_rows>>
storeVars == <<status, duplicate_prevention, question_rows, section_rows, responses, response_items, op, returned, now,
               finalized, calls>>

ResponseIds == 1..MaxResponses

\* the survey whose owner publishes and closes it during a run; the other
\* survey stays published with duplicate prevention on
ManagedSurveys == {"sA"}

\* request bodies of the lifecycle model
LifecycleItemLists == SeqUpTo({ResponseItem("q1", Num(1), None)}, MaxItems)
LifecycleUserInfos == {None, Str(<< >>), Str(<<"a">>), Str(<<"b">>)}

\* no request in flight on a response id
Idle == [pc |-> "idle", call |-> "none", items |-> << >>, user_info |-> None,
         response |-> None, checked_at |-> 0]

\* what a finished request hands to its caller: Ok or the error raised
Returned(r, call, result) == [r |-> r, call |-> call, result |-> result]

\* ------------------------------------------------------- survey structure
\* QuestionType(value): the enum member with that value
QuestionType(value) == [kind |-> "QuestionType", value |-> value]

\* Question(id=...): the dataclass defaults of the fields update_question writes
NewQuestion ==
    [type |-> QuestionType(Str(<<"short_text">>)), title |-> Str(<< >>), description |-> None,
     required |-> Bool(FALSE), order_index |-> Num(0), is_hidden |-> Bool(FALSE),
     validation_rules |-> None, conditional_logic |-> None, likert_config |-> None]

\* Section(id=...): the dataclass defaults of the fields update_section writes
NewSection ==
    [title |-> None, description |-> None, order_index |-> Num(0),
     is_conditional |-> Bool(FALSE), conditional_logic |-> None]

\* the rows of questions q1 (a required, hidden Likert question with rules,
\* branching and a scale) and q2, and of sections S0 and S1 of survey sA, as
\* create_question and create_section stored them
StoredRows ==
    [questions |->
        [q \in {"q1", "q2"} |->
            [section_id |-> "S0",
             type |-> Str(<<"likert">>), title |-> Str(<<"T">>), description |-> Str(<<"d">>),
             required |-> Bool(TRUE), order_index |-> Num(1), is_hidden |-> Bool(TRUE),
             validation_rules |-> ValidationRules(None, None, Num(1), Num(5), None),
             conditional_logic |-> Dict(<< <<<<"question_id">>, Str(<<"q2">>)>> >>),
             likert_config |-> Dict(<< <<<<"scale_max">>, Num(7)>> >>)]],
     sections |->
        [sec \in {"S0", "S1"} |->
            [survey_id |-> "sA",
             title |-> Str(<<"P">>), description |-> Str(<<"d">>), order_index |-> Num(1),
             is_conditional |-> Bool(TRUE),
             conditional_logic |-> Dict(<< <<<<"question_id">>, Str(<<"q1">>)>> >>)]]]

\* QuestionUpdateRequest bodies (the options aside): every field absent
\* (None) or present, the flags and the index present also with their
\* falsy values
QuestionUpdateRequests ==
    {[type |-> ty, title |-> ti, description |-> de, required |-> rq, order_index |-> oi,
      is_hidden |-> hi, validation_rules |-> vr, conditional_logic |-> cl, likert_config |-> lc] :
        ty \in {None, Str(<<"number">>)}, ti \in {None, Str(<<"N">>)},
        de \in {None, Str(<<"e">>)}, rq \in {None, Bool(FALSE), Bool(TRUE)},
        oi \in {None, Num(0), Num(2)}, hi \in {None, Bool(FALSE)},
        vr \in {None, ValidationRules(Num(1), None, None, None, None)},
        cl \in {None, Dict(<< <<<<"question_id">>, Str(<<"q1">>)>> >>)},
        lc \in {None, Dict(<< <<<<"scale_max">>, Num(3)>> >>)}}

\* SectionUpdateRequest bodies
SectionUpdateRequests ==
    {[title |-> ti, description |-> de, order_index |-> oi, is_conditional |-> ic,
      conditional_logic |-> cl] :
        ti \in {None, Str(<<"N">>)}, de \in {None, Str(<<"e">>)},
        oi \in {None, Num(0), Num(2)}, ic \in {None, Bool(FALSE), Bool(TRUE)},
        cl \in {None, Dict(<< <<<<"question_id">>, Str(<<"q2">>)>> >>)}}

InitLifecycle ==
    /\ status = [s \in SurveyIds |-> IF s \in ManagedSurveys THEN DRAFT ELSE PUBLISHED]
    /\ duplicate_prevention \in {f \in [SurveyIds -> BOOLEAN] :
                                    \A s \in SurveyIds \ ManagedSurveys : f[s]}
    /\ question_rows = StoredRows.questions
    /\ section_rows = StoredRows.sections
    /\ responses = << >>
    /\ response_items = << >>
    /\ op = [r \in ResponseIds |-> Idle]
    /\ returned = None
    /\ now = 0
    /\ finalized = {}
    /\ calls = 0

Init ==
    /\ InitLifecycle
    /\ input = None
    /\ output = None
    /\ done = TRUE

\* ------------------------------------------------------------ repository
\* get_response_by_id: the row, or None
GetResponseById(r) == IF r \in 1..Len(responses) THEN responses[r] ELSE None

\* a duplicate check that never finds anything
CheckDuplicateResponse_Never(s, h) == FALSE

\* a duplicate check that looks at the completed rows of every survey
CheckDuplicateResponse_AnySurvey(s, h) ==
    \E i \in 1..Len(responses) :
        /\ responses[i].user_info_hash = h
        /\ responses[i].is_complete

\* check_duplicate_response: a completed row of the survey with this hash exists
CheckDuplicateResponse(s, h) ==
    \E i \in 1..Len(responses) :
        /\ responses[i].survey_id = s
        /\ responses[i].user_info_hash = h
        /\ responses[i].is_complete

\* an update that marks the row complete and leaves its submission time alone
UpdateResponse_FlagOnly(row, response) ==
    [row EXCEPT !.user_info_encrypted = response.user_info_encrypted,
                !.user_info_hash = response.user_info_hash,
                !.is_complete = response.is_complete]

\* update_response: writes the four columns of the in-memory response
UpdateResponse(row, response) ==
    [row EXCEPT !.user_info_encrypted = response.user_info_encrypted,
                !.user_info_hash = response.user_info_hash,
                !.submitted_at = response.submitted_at,
                !.is_complete = response.is_complete]

\* .order("submitted_at", desc=True): newest first, rows without a time
\* before the others (descending order puts NULL first), ties in id order
Newer(i, j) ==
    IF responses[i].submitted_at = NoTime THEN responses[j].submitted_at # NoTime
    ELSE responses[j].submitted_at # NoTime
         /\ responses[i].submitted_at > responses[j].submitted_at

RECURSIVE OrderBySubmittedAtDesc(_)
OrderBySubmittedAtDesc(ids) ==
    IF ids = {} THEN << >>
    ELSE LET first == CHOOSE i \in ids : \A j \in ids :
                          \/ Newer(i, j)
                          \/ (~Newer(j, i) /\ i <= j)
         IN <<first>> \o OrderBySubmittedAtDesc(ids \ {first})

\* a listing that ignores only_complete
GetResponsesBySurveyId_All(s, include_items, only_complete) ==
    LET ids == {i \in 1..Len(responses) : responses[i].survey_id = s}
        ordered == OrderBySubmittedAtDesc(ids)
    IN [k \in 1..Len(ordered) |->
           [id |-> ordered[k], row |-> responses[ordered[k]],
            items |-> IF include_items THEN response_items[ordered[k]] ELSE << >>]]

\* get_responses_by_survey_id: the rows of the survey, newest submission
\* first, each with its id and (on request) its items
GetResponsesBySurveyId(s, include_items, only_complete) ==
    LET ids == {i \in 1..Len(responses) :
                   /\ responses[i].survey_id = s
                   /\ (only_complete => responses[i].is_complete)}
        ordered == OrderBySubmittedAtDesc(ids)
    IN [k \in 1..Len(ordered) |->
           [id |-> ordered[k], row |-> responses[ordered[k]],
            items |-> IF include_items THEN response_items[ordered[k]] ELSE << >>]]

\* get_all_responses_with_items
GetAllResponsesWithItems(s) == GetResponsesBySurveyId(s, TRUE, TRUE)

\* ------------------------------------------------- statistics aggregator
\* the defaultdict entry of a question not seen before
NewStats == [response_count |-> 0, value_counts |-> << >>, text_responses |-> << >>,
             numeric_values |-> << >>]

\* value_counts[key] += 1; a new key goes last
Increment(value_counts, key) ==
    IF \E i \in 1..Len(value_counts) : value_counts[i][1] = key
    THEN [i \in 1..Len(value_counts) |->
             IF value_counts[i][1] = key
             THEN <<key, value_counts[i][2] + 1>> ELSE value_counts[i]]
    ELSE Append(value_counts, <<key, 1>>)

\* an aggregator that counts only the first element of a list
CountElements_First(stats, l) ==
    IF l = << >> THEN stats
    ELSE [stats EXCEPT !.value_counts = Increment(@, PyStr(l[1]))]

\* for val in item.answer_value: value_counts[str(val)] += 1
RECURSIVE CountElements(_, _)
CountElements(stats, l) ==
    IF l = << >> THEN stats
    ELSE CountElements([stats EXCEPT !.value_counts = Increment(@, PyStr(l[1]))], Tail(l))

\* an aggregator that counts a Likert value under its own string as well
RECURSIVE CountRows_BareKey(_, _)
CountRows_BareKey(stats, d) ==
    IF d = << >> THEN stats
    ELSE LET row_key == d[1][1]
             val == d[1][2]
             counted == [stats EXCEPT !.value_counts =
                            Increment(Increment(@, row_key \o <<":">> \o PyStr(val)),
                                      PyStr(val))]
         IN CountRows_BareKey(IF IsNumeric(val)
                              THEN [counted EXCEPT !.numeric_values = Append(@, val)]
                              ELSE counted,
                              Tail(d))

\* for row_key, val in item.answer_value.items(): the Likert rows
RECURSIVE CountRows(_, _)
CountRows(stats, d) ==
    IF d = << >> THEN stats
    ELSE LET row_key == d[1][1]
             val == d[1][2]
             counted == [stats EXCEPT !.value_counts =
                            Increment(@, row_key \o <<":">> \o PyStr(val))]
         IN CountRows(IF IsNumeric(val)
                      THEN [counted EXCEPT !.numeric_values = Append(@, val)]
                      ELSE counted,
                      Tail(d))

\* lines 220-240: one item folded into the statistics of its question
FoldItem(question_stats, item) ==
    LET q_id == item.question_id
        s0 == IF q_id \in DOMAIN question_stats THEN question_stats[q_id] ELSE NewStats
        s1 == [s0 EXCEPT !.response_count = @ + 1]
        v == item.answer_value
        s2 == IF v = None THEN s1
              ELSE IF v.kind = "list" THEN CountElements(s1, v.l)
              ELSE IF v.kind = "dict" THEN CountRows(s1, v.d)
              ELSE IF IsNumeric(v)
              THEN [s1 EXCEPT !.numeric_values = Append(@, v),
                              !.value_counts = Increment(@, PyStr(v))]
              ELSE [s1 EXCEPT !.value_counts = Increment(@, PyStr(v))]
        s3 == IF Truthy(item.answer_text)
              THEN [s2 EXCEPT !.text_responses = Append(@, item.answer_text.s)]
              ELSE s2
    IN [q \in (DOMAIN question_stats) \cup {q_id} |->
           IF q = q_id THEN s3 ELSE question_stats[q]]

RECURSIVE FoldItems(_, _)
FoldItems(question_stats, items) ==
    IF items = << >> THEN question_stats
    ELSE FoldItems(FoldItem(question_stats, items[1]), Tail(items))

RECURSIVE FoldResponses(_, _)
FoldResponses(question_stats, rs) ==
    IF rs = << >> THEN question_stats
    ELSE FoldResponses(FoldItems(question_stats, rs[1].items), Tail(rs))

RECURSIVE SumNumeric(_)
SumNumeric(values) ==
    IF values = << >> THEN 0 ELSE NumericValue(values[1]) + SumNumeric(Tail(values))

\* sum(numeric_values) / len(numeric_values), kept as the exact quotient sum / count
Average(values) == [kind |-> "avg", sum |-> SumNumeric(values), count |-> Len(values)]

\* lines 243-246: the average is set only for a non-empty accumulator
WithAverage(stats) ==
    [response_count |-> stats.response_count,
     value_counts |-> stats.value_counts,
     text_responses |-> stats.text_responses,
     numeric_values |-> stats.numeric_values,
     average |-> IF stats.numeric_values # << >> THEN Average(stats.numeric_values) ELSE None]

\* get_response_statistics
GetResponseStatistics(s) ==
    LET rs == GetResponsesBySurveyId(s, TRUE, TRUE)
        folded == FoldResponses([q \in {} |-> NewStats], rs)
    IN IF rs = << >>
       THEN [total_responses |-> 0, question_stats |-> [q \in {} |-> NewStats]]
       ELSE [total_responses |-> Len(rs),
             question_stats |-> [q \in DOMAIN folded |-> WithAverage(folded[q])]]

\* --------------------------------------------------------- export renderers
\* A character outside ASCII is written as the name of its code point.
\* headers = ["..", ".."]: the two fixed column titles (lines 184, 248)
FixedHeaders ==
    << <<"U+C751", "U+B2F5", " ", "I", "D">>,
       <<"U+C81C", "U+CD9C", " ", "U+C2DC", "U+AC04">> >>

\* str(response.id): the text of the id of a stored response
ResponseIdStr(id) == <<"r">> \o NatStr(id)

\* response.submitted_at.isoformat() if response.submitted_at else ""
SubmittedAtStr(t) == IF t = NoTime THEN << >> ELSE <<"T">> \o NatStr(t)

\* lines 173-177: the questions of all sections in stored order, hidden ones left out
ExportQuestions(sections) == SelectSeq(AllQuestions(sections), LAMBDA q : ~q.is_hidden)

\* f"{question_number}. {q.title}" if question_number else q.title
HeaderTitle(sections, q) ==
    LET question_number == GetQuestionNumber(sections, q)
    IN IF question_number # << >> THEN question_number \o <<".", " ">> \o q.title
       ELSE q.title

\* lines 184-188: the header row
ExportHeaders(sections) ==
    LET questions == ExportQuestions(sections)
    IN FixedHeaders
       \o [k \in 1..Len(questions) |-> HeaderTitle(sections, questions[k])]

\* json.dumps escapes of one character of a string
JsonEscape(c) ==
    CASE c = "\"" -> <<"\\", "\"">>
      [] c = "\\" -> <<"\\", "\\">>
      [] c = "\n" -> <<"\\", "n">>
      [] c = "\r" -> <<"\\", "r">>
      [] c = "\t" -> <<"\\", "t">>
      [] c = "\f" -> <<"\\", "f">>
      [] OTHER -> <<c>>

JsonString(t) == <<"\"">> \o JoinText([i \in 1..Len(t) |-> JsonEscape(t[i])], << >>) \o <<"\"">>

\* json.dumps(v, ensure_ascii=False): separators ", " and ": ", keys in stored order
RECURSIVE JsonDumps(_)
JsonDumps(v) ==
    CASE v.kind = "none" -> <<"n", "u", "l", "l">>
      [] v.kind = "bool" -> IF v.b THEN <<"t", "r", "u", "e">> ELSE <<"f", "a", "l", "s", "e">>
      [] v.kind = "num" -> IntStr(v.n)
      [] v.kind = "str" -> JsonString(v.s)
      [] v.kind = "list" ->
           <<"[">> \o JoinText([i \in 1..Len(v.l) |-> JsonDumps(v.l[i])], <<",", " ">>) \o <<"]">>
      [] v.kind = "dict" ->
           <<"{">> \o JoinText([i \in 1..Len(v.d) |->
                        JsonString(v.d[i][1]) \o <<":", " ">> \o JsonDumps(v.d[i][2])],
                        <<",", " ">>) \o <<"}">>

\* a cell that shows the value although the item has a non-empty text
ExportCell_ValueFirst(item) ==
    IF item = None THEN << >>
    ELSE IF item.answer_value # None THEN PyStr(item.answer_value)
    ELSE IF Truthy(item.answer_text) THEN item.answer_text.s
    ELSE << >>

\* lines 198-212: the cell of one question, from the item found for it (or None)
ExportCell(item) ==
    IF item = None THEN << >>
    ELSE IF Truthy(item.answer_text) THEN item.answer_text.s
    ELSE IF item.answer_value # None
    THEN (IF item.answer_value.kind = "list"
          THEN JoinText([i \in 1..Len(item.answer_value.l) |-> PyStr(item.answer_value.l[i])],
                        <<",", " ">>)
          ELSE IF item.answer_value.kind = "dict" THEN JsonDumps(item.answer_value)
          ELSE PyStr(item.answer_value))
    ELSE << >>

\* a row that has cells only for the questions the response answered
ExportRow_AnsweredOnly(sections, response) ==
    LET questions == ExportQuestions(sections)
        item_map == ItemMap(response.items)
        answered == SelectSeq(questions, LAMBDA q : q.id \in DOMAIN item_map)
    IN <<ResponseIdStr(response.id), SubmittedAtStr(response.row.submitted_at)>>
       \o [k \in 1..Len(answered) |-> ExportCell(item_map[answered[k].id])]

\* lines 193-212: the row of one response; the last item of a question wins
ExportRow(sections, response) ==
    LET questions == ExportQuestions(sections)
        item_map == ItemMap(response.items)
    IN <<ResponseIdStr(response.id), SubmittedAtStr(response.row.submitted_at)>>
       \o [k \in 1..Len(questions) |-> ExportCell(MapGet(item_map, questions[k].id))]

\* header row, then one row per completed response of the survey
ExportTable(sections, s) ==
    LET rs == GetAllResponsesWithItems(s)
    IN <<ExportHeaders(sections)>> \o [k \in 1..Len(rs) |-> ExportRow(sections, rs[k])]

\* csv.writer, default dialect: a field holding the delimiter, the quote
\* character or a line break is quoted, with its quotes doubled
\* a writer that never quotes a field
CsvField_Unquoted(field) == field

CsvField(field) ==
    IF \E i \in 1..Len(field) : field[i] \in {",", "\"", "\r", "\n"}
    THEN <<"\"">>
         \o JoinText([i \in 1..Len(field) |->
                         IF field[i] = "\"" THEN <<"\"", "\"">> ELSE <<field[i]>>], << >>)
         \o <<"\"">>
    ELSE field

\* writer.writerow(row): fields joined by "," and ended by "\r\n"; a row of
\* one empty field is written as a pair of quotes
CsvRecord(row) ==
    IF row = << << >> >> THEN <<"\"", "\"", "\r", "\n">>
    ELSE JoinText([i \in 1..Len(row) |-> CsvField(row[i])], <<",">>) \o <<"\r", "\n">>

\* the code point of a character: ASCII 32..126 by position, the control
\* characters and the named code points by table
AsciiFrom32 ==
    <<" ", "!", "\"", "#", "$", "%", "&", "'", "(", ")", "*", "+", ",", "-", ".", "/",
      "0", "1", "2", "3", "4", "5", "6", "7", "8", "9", ":", ";", "<", "=", ">", "?",
      "@", "A", "B", "C", "D", "E", "F", "G", "H", "I", "J", "K", "L", "M", "N", "O",
      "P", "Q", "R", "S", "T", "U", "V", "W", "X", "Y", "Z", "[", "\\", "]", "^", "_",
      "U+0060", "a", "b", "c", "d", "e", "f", "g", "h", "i", "j", "k", "l", "m", "n", "o",
      "p", "q", "r", "s", "t", "u", "v", "w", "x", "y", "z", "{", "|", "}", "~">>

NamedCodePoints ==
    << <<"\t", 9>>, <<"\n", 10>>, <<"\f", 12>>, <<"\r", 13>>,
       <<"U+AC04", 44036>>, <<"U+AC12", 44050>>, <<"U+ACC4", 44228>>,
       <<"U+ADE0", 44512>>, <<"U+B2F5", 45813>>, <<"U+B370", 45936>>,
       <<"U+B3C4", 46020>>, <<"U+BB38", 47928>>, <<"U+BE48", 48712>>,
       <<"U+C218", 49688>>, <<"U+C2DC", 49884>>, <<"U+C57D", 50557>>,
       <<"U+C694", 50836>>, <<"U+C751", 51025>>, <<"U+C774", 51060>>,
       <<"U+C81C", 51228>>, <<"U+CD1D", 52509>>, <<"U+CD9C", 52636>>,
       <<"U+D130", 53552>>, <<"U+D1B5", 53685>>, <<"U+D3C9", 54217>>,
       <<"U+D56D", 54637>>, <<"U+FEFF", 65279>> >>

BOM == "U+FEFF"

CodePoint(c) ==
    IF \E i \in 1..Len(AsciiFrom32) : AsciiFrom32[i] = c
    THEN 31 + (CHOOSE i \in 1..Len(AsciiFrom32) : AsciiFrom32[i] = c)
    ELSE NamedCodePoints[CHOOSE i \in 1..Len(NamedCodePoints) : NamedCodePoints[i][1] = c][2]

\* the UTF-8 bytes of one code point below 2^16
Utf8Bytes(cp) ==
    IF cp < 128 THEN <<cp>>
    ELSE IF cp < 2048 THEN <<192 + (cp \div 64), 128 + (cp % 64)>>
    ELSE <<224 + (cp \div 4096), 128 + ((cp \div 64) % 64), 128 + (cp % 64)>>

\* text.encode("utf-8")
Utf8Encode(t) == JoinText([i \in 1..Len(t) |-> Utf8Bytes(CodePoint(t[i]))], << >>)

\* generate_csv: (BOM + output.getvalue()).encode("utf-8")
\* output.getvalue() is the records one after the other
GenerateCsv(sections, s) ==
    LET table == ExportTable(sections, s)
    IN Utf8Encode(<<BOM>> \o JoinText([i \in 1..Len(table) |-> CsvRecord(table[i])], << >>))

\* the fixed texts of the workbook (lines 245, 281, 282, 289, 290, 293, 297)
WorkbookText ==
    [data |-> <<"U+C751", "U+B2F5", " ", "U+B370", "U+C774", "U+D130">>,
     summary |-> <<"U+C694", "U+C57D", " ", "U+D1B5", "U+ACC4">>,
     total |-> <<"U+CD1D", " ", "U+C751", "U+B2F5", " ", "U+C218">>,
     question |-> <<"U+BB38", "U+D56D", ":", " ">>,
     count |-> <<"U+C751", "U+B2F5", " ", "U+C218">>,
     average |-> <<"U+D3C9", "U+ADE0">>,
     value |-> <<"U+AC12">>,
     frequency |-> <<"U+BE48", "U+B3C4">>]

\* round(average, 2): the quotient sum / count rounded to hundredths, a tie
\* going to the even neighbour; kept as the number of hundredths
Round2(average) ==
    LET n == 100 * average.sum
        q == n \div average.count
        r == n % average.count
    IN [kind |-> "float", hundredths |->
           IF 2 * r < average.count THEN q
           ELSE IF 2 * r > average.count THEN q + 1
           ELSE IF q % 2 = 0 THEN q ELSE q + 1]

\* lines 285-301: the rows of the summary sheet for one visible question
SummaryBlock(sections, question_stats, q) ==
    LET q_stats == IF q.id \in DOMAIN question_stats THEN question_stats[q.id] ELSE None
        response_count == IF q_stats = None THEN 0 ELSE q_stats.response_count
        average == IF q_stats = None THEN None ELSE q_stats.average
        value_counts == IF q_stats = None THEN << >> ELSE q_stats.value_counts
    IN << <<Str(WorkbookText.question \o HeaderTitle(sections, q))>>,
          <<Str(WorkbookText.count), Num(response_count)>> >>
       \o (IF average # None THEN << <<Str(WorkbookText.average), Round2(average)>> >> ELSE << >>)
       \o (IF value_counts # << >>
           THEN << <<Str(WorkbookText.value), Str(WorkbookText.frequency)>> >>
                \o [i \in 1..Len(value_counts) |->
                       <<Str(value_counts[i][1]), Num(value_counts[i][2])>>]
           ELSE << >>)
       \o << << >> >>

RECURSIVE SummaryBlocks(_, _, _)
SummaryBlocks(sections, question_stats, questions) ==
    IF questions = << >> THEN << >>
    ELSE SummaryBlock(sections, question_stats, questions[1])
         \o SummaryBlocks(sections, question_stats, Tail(questions))

\* lines 281-301: the summary sheet
SummarySheet(sections, statistics) ==
    << <<Str(WorkbookText.total), Num(statistics.total_responses)>>, << >> >>
    \o SummaryBlocks(sections, statistics.question_stats, ExportQuestions(sections))

\* a data sheet that leaves the submission time column empty
DataSheet_NoTimes(sections, s) ==
    LET table == ExportTable(sections, s)
    IN [i \in 1..Len(table) |->
           [j \in 1..Len(table[i]) |-> IF i > 1 /\ j = 2 THEN Str(<< >>) ELSE Str(table[i][j])]]

\* the raw data sheet: the cells of the export table, each a string
DataSheet(sections, s) ==
    LET table == ExportTable(sections, s)
    IN [i \in 1..Len(table) |-> [j \in 1..Len(table[i]) |-> Str(table[i][j])]]

\* ws.append(row) of openpyxl raises IllegalCharacterError for a string cell
\* that holds a control character other than tab, line feed and carriage
\* return; of the characters of the model that is the form feed
AppendRaises(rows) ==
    \E i \in 1..Len(rows) : \E j \in 1..Len(rows[i]) :
        /\ rows[i][j].kind = "str"
        /\ \E k \in 1..Len(rows[i][j].s) : rows[i][j].s[k] = "\f"

IllegalCharacterError == [kind |-> "error", error |-> "IllegalCharacterError"]

\* lines 241-308: the workbook of the two sheets, saved at time clock
Workbook(data, summary, clock) ==
    IF AppendRaises(data) \/ AppendRaises(summary) THEN IllegalCharacterError
    ELSE [kind |-> "xlsx", created |-> clock, modified |-> clock,
          sheets |-> << [title |-> WorkbookText.data, rows |-> data],
                        [title |-> WorkbookText.summary, rows |-> summary] >>]

\* generate_xlsx at wall-clock time clock: the two sheets, and the creation
\* and modification times that openpyxl.Workbook() and wb.save() stamp
\* into the document properties of the file
GenerateXlsx(sections, s, clock) ==
    Workbook(DataSheet(sections, s), SummarySheet(sections, GetResponseStatistics(s)), clock)

\* ------------------------------------------------------- survey lifecycle
\* publish_survey -> update_survey_status(PUBLISHED)
PublishSurvey(s) ==
    /\ status[s] # PUBLISHED
    /\ status' = [status EXCEPT ![s] = PUBLISHED]
    /\ returned' = None
    /\ UNCHANGED <<duplicate_prevention, question_rows, section_rows, responses, response_items,
                   op, now, finalized, calls, pureVars>>

\* close_survey -> update_survey_status(CLOSED)
CloseSurvey(s) ==
    /\ status[s] # CLOSED
    /\ status' = [status EXCEPT ![s] = CLOSED]
    /\ returned' = None
    /\ UNCHANGED <<duplicate_prevention, question_rows, section_rows, responses, response_items,
                   op, now, finalized, calls, pureVars>>

\* ----------------------------------------------------------- start_response
StartResponse(s) ==
    /\ Len(responses) < MaxResponses
    /\ calls < MaxCalls
    /\ calls' = calls + 1
    /\ responses' = Append(responses, Response(s))
    /\ response_items' = Append(response_items, << >>)
    /\ returned' = None
    /\ UNCHANGED <<surveyVars, op, now, finalized, pureVars>>

\* ---------------------------------------------------------- submit_response
\* the request returns Ok or raises `e`: its locals are gone
Finish(r, call, e) ==
    /\ op' = [op EXCEPT ![r] = Idle]
    /\ returned' = Returned(r, call, e)

\* the request goes on to its next await
Goto(r, next) ==
    /\ op' = [op EXCEPT ![r] = next]
    /\ returned' = None

\* lines 69-70: _validate_response, then on to the item replacement
ValidateThenStore(r, call, response) ==
    LET v == ValidateResponse(Sections(response.survey_id), call.items)
    IN IF v # Ok THEN Finish(r, "submit", v)
       ELSE Goto(r, [call EXCEPT !.pc = "s_delete", !.response = response,
                                 !.user_info = None])

\* lines 43-58: get_response_by_id, get_survey_by_id, the status check, and
\* the validation when the duplicate check is skipped.  The two reads are one
\* step: only this request writes the row of r while it is in flight.
SubmitResponseBegin(r, items, user_info) ==
    /\ op[r].pc = "idle"
    /\ calls < MaxCalls
    /\ calls' = calls + 1
    /\ LET response == GetResponseById(r)
           call == [pc |-> "s_survey", call |-> "submit", items |-> items,
                    user_info |-> user_info, response |-> response, checked_at |-> 0]
       IN IF response = None
          THEN Finish(r, "submit", [kind |-> "response_not_found"])
          ELSE IF response.survey_id \notin SurveyIds
          THEN Finish(r, "submit", [kind |-> "survey_not_found"])
          ELSE IF ~CanAcceptResponses(status[response.survey_id])
          THEN Finish(r, "submit", [kind |-> "not_accepting"])
          ELSE IF duplicate_prevention[response.survey_id] /\ Truthy(user_info)
          THEN Goto(r, [call EXCEPT !.pc = "s_dup"])
          ELSE ValidateThenStore(r, call, response)
    /\ UNCHANGED <<surveyVars, responses, response_items, now, finalized, pureVars>>

\* a submit that stores the identity hash on the row before it validates
SubmitCheckDuplicate_WriteFirst(r) ==
    /\ op[r].pc = "s_dup"
    /\ LET user_info_hash == HashUserInfo(op[r].user_info)
           response == [op[r].response EXCEPT
                           !.user_info_hash = user_info_hash,
                           !.user_info_encrypted = EncryptUserInfo(op[r].user_info)]
       IN IF CheckDuplicateResponse(op[r].response.survey_id, user_info_hash)
          THEN Finish(r, "submit", [kind |-> "duplicate"]) /\ UNCHANGED responses
          ELSE /\ responses' = [responses EXCEPT ![r] = UpdateResponse(@, response)]
               /\ ValidateThenStore(r, [op[r] EXCEPT !.checked_at = now], response)
    /\ UNCHANGED <<surveyVars, response_items, now, finalized, calls, pureVars>>

\* lines 59-70: check_duplicate_response, then the validation
SubmitCheckDuplicate(r) ==
    /\ op[r].pc = "s_dup"
    /\ LET user_info_hash == HashUserInfo(op[r].user_info)
       IN IF CheckDuplicateResponse(op[r].response.survey_id, user_info_hash)
          THEN Finish(r, "submit", [kind |-> "duplicate"])
          ELSE ValidateThenStore(r, [op[r] EXCEPT !.checked_at = now],
                   [op[r].response EXCEPT
                       !.user_info_hash = user_info_hash,
                       !.user_info_encrypted = EncryptUserInfo(op[r].user_info)])
    /\ UNCHANGED <<surveyVars, responses, response_items, now, finalized, calls, pureVars>>

\* repository update_response_items, line 176: delete_response_items
SubmitDeleteItems(r) ==
    /\ op[r].pc = "s_delete"
    /\ response_items' = [response_items EXCEPT ![r] = << >>]
    /\ Goto(r, [op[r] EXCEPT !.pc = IF op[r].items # << >> THEN "s_create" ELSE "s_update"])
    /\ UNCHANGED <<surveyVars, responses, now, finalized, calls, pureVars>>

\* repository update_response_items, lines 178-181: create_response_items
SubmitCreateItems(r) ==
    /\ op[r].pc = "s_create"
    /\ response_items' = [response_items EXCEPT ![r] = op[r].items]
    /\ Goto(r, [op[r] EXCEPT !.pc = "s_update"])
    /\ UNCHANGED <<surveyVars, responses, now, finalized, calls, pureVars>>

\* lines 84-88: submitted_at, is_complete, update_response
SubmitUpdateResponse(r) ==
    /\ op[r].pc = "s_update"
    /\ LET response == [op[r].response EXCEPT !.submitted_at = now + 1, !.is_complete = TRUE]
       IN responses' = [responses EXCEPT ![r] = UpdateResponse(@, response)]
    /\ now' = now + 1
    /\ finalized' = finalized \cup {r}
    /\ Finish(r, "submit", Ok)
    /\ UNCHANGED <<surveyVars, response_items, calls, pureVars>>

\* ---------------------------------------------------- update_response_items
\* lines 96-98: get_response_by_id
UpdateItemsBegin(r, items) ==
    /\ op[r].pc = "idle"
    /\ calls < MaxCalls
    /\ calls' = calls + 1
    /\ LET response == GetResponseById(r)
       IN IF response = None
          THEN Finish(r, "save", [kind |-> "response_not_found"])
          ELSE Goto(r, [pc |-> "u_delete", call |-> "save", items |-> items,
                        user_info |-> None, response |-> response, checked_at |-> 0])
    /\ UNCHANGED <<surveyVars, responses, response_items, now, finalized, pureVars>>

\* a save that leaves the stored items in place before it inserts
UpdateItemsDelete_Keep(r) ==
    /\ op[r].pc = "u_delete"
    /\ IF op[r].items # << >>
       THEN Goto(r, [op[r] EXCEPT !.pc = "u_create"])
       ELSE Finish(r, "save", Ok)
    /\ UNCHANGED <<surveyVars, responses, response_items, now, finalized, calls, pureVars>>

\* repository update_response_items, line 176: delete_response_items
UpdateItemsDelete(r) ==
    /\ op[r].pc = "u_delete"
    /\ response_items' = [response_items EXCEPT ![r] = << >>]
    /\ IF op[r].items # << >>
       THEN Goto(r, [op[r] EXCEPT !.pc = "u_create"])
       ELSE Finish(r, "save", Ok)
    /\ UNCHANGED <<surveyVars, responses, now, finalized, calls, pureVars>>

\* repository update_response_items, lines 178-181: create_response_items
UpdateItemsCreate(r) ==
    /\ op[r].pc = "u_create"
    /\ response_items' = [response_items EXCEPT ![r] = op[r].items]
    /\ Finish(r, "save", Ok)
    /\ UNCHANGED <<surveyVars, responses, now, finalized, calls, pureVars>>

\* a write to the table store raises: the request ends there, nothing is undone
PersistenceFailure(r) ==
    /\ op[r].pc \in {"s_delete", "s_create", "s_update", "u_delete", "u_create"}
    /\ Finish(r, op[r].call, [kind |-> "persistence"])
    /\ UNCHANGED <<surveyVars, responses, response_items, now, finalized, calls, pureVars>>

\* requests are served one after the other
NoneInFlight == \A r \in ResponseIds : op[r].pc = "idle"

Next ==
    \/ \E s \in ManagedSurveys : NoneInFlight /\ PublishSurvey(s)
    \/ \E s \in ManagedSurveys : NoneInFlight /\ CloseSurvey(s)
    \/ \E s \in SurveyIds : NoneInFlight /\ StartResponse(s)
    \/ \E r \in ResponseIds, items \in LifecycleItemLists, u \in LifecycleUserInfos :
           NoneInFlight /\ SubmitResponseBegin(r, items, u)
    \/ \E r \in ResponseIds : SubmitCheckDuplicate(r)
    \/ \E r \in ResponseIds : SubmitDeleteItems(r)
    \/ \E r \in ResponseIds : SubmitCreateItems(r)
    \/ \E r \in ResponseIds : SubmitUpdateResponse(r)
    \/ \E r \in ResponseIds, items \in LifecycleItemLists : NoneInFlight /\ UpdateItemsBegin(r, items)
    \/ \E r \in ResponseIds : UpdateItemsDelete(r)
    \/ \E r \in ResponseIds : UpdateItemsCreate(r)
    \/ \E r \in ResponseIds : PersistenceFailure(r)

Spec == Init /\ [][Next]_vars

\* ------------------------------------------------- overlapping requests
\* every survey is published with duplicate prevention on, and requests of
\* different responses are served at the same time: each await of a request
\* is a step of its own, taken in any order with the steps of the others
InitOverlap ==
    /\ status = [s \in SurveyIds |-> PUBLISHED]
    /\ duplicate_prevention = [s \in SurveyIds |-> TRUE]
    /\ question_rows = StoredRows.questions
    /\ section_rows = StoredRows.sections
    /\ responses = << >>
    /\ response_items = << >>
    /\ op = [r \in ResponseIds |-> Idle]
    /\ returned = None
    /\ now = 0
    /\ finalized = {}
    /\ calls = 0
    /\ input = None
    /\ output = None
    /\ done = TRUE

NextOverlap ==
    \/ \E s \in SurveyIds : StartResponse(s)
    \/ \E r \in ResponseIds, items \in LifecycleItemLists, u \in LifecycleUserInfos :
           SubmitResponseBegin(r, items, u)
    \/ \E r \in ResponseIds : SubmitCheckDuplicate(r)
    \/ \E r \in ResponseIds : SubmitDeleteItems(r)
    \/ \E r \in ResponseIds : SubmitCreateItems(r)
    \/ \E r \in ResponseIds : SubmitUpdateResponse(r)

SpecOverlap == InitOverlap /\ [][NextOverlap]_vars

\* ------------------------------------- an export among overlapping requests
\* generate_xlsx of survey sA, lines 227-231: get_survey_by_id and
\* get_all_responses_with_items; the rows read stay in the locals of the call
GenerateXlsxResponses ==
    /\ input = None
    /\ output = None
    /\ input' = [pc |-> "statistics", responses |-> GetAllResponsesWithItems("sA"),
                 data |-> DataSheet(Sections("sA"), "sA")]
    /\ UNCHANGED <<storeVars, output, done>>

\* generate_xlsx, lines 232-308: get_response_statistics, a second read of
\* the tables, then the workbook of the rows read before and these statistics
GenerateXlsxStatistics ==
    /\ input # None
    /\ input.pc = "statistics"
    /\ input' = [input EXCEPT !.pc = "returned"]
    /\ output' = Workbook(input.data,
                          SummarySheet(Sections("sA"), GetResponseStatistics("sA")), now)
    /\ UNCHANGED <<storeVars, done>>

SpecOverlapExport ==
    InitOverlap /\ [][NextOverlap \/ GenerateXlsxResponses \/ GenerateXlsxStatistics]_vars

\* ------------------------------------------------ the validator on its own
\* no request in flight, every survey published, the tables as given
StoreAtRest(rows, items) ==
    /\ status = [s \in SurveyIds |-> PUBLISHED]
    /\ duplicate_prevention = [s \in SurveyIds |-> FALSE]
    /\ question_rows = StoredRows.questions
    /\ section_rows = StoredRows.sections
    /\ responses = rows
    /\ response_items = items
    /\ op = [r \in ResponseIds |-> Idle]
    /\ returned = None
    /\ now = Len(rows)
    /\ finalized = {}
    /\ calls = 0

\* ------------------------------------------------- editing the structure
\* get_sections_by_survey_id: the ids of the sections of that survey
GetSectionsBySurveyId(survey_id) ==
    {sec \in DOMAIN section_rows : section_rows[sec].survey_id = survey_id}

\* update_question(question_id, request) of the service and of the repository
UpdateQuestion(question_id, request) ==
    LET existing == NewQuestion
        question == [f \in DOMAIN existing |->
                        IF request[f] # None
                        THEN (IF f = "type" THEN QuestionType(request.type) ELSE request[f])
                        ELSE existing[f]]
        data == [f \in DOMAIN question |->
                    IF f = "type" THEN question.type.value ELSE question[f]]
        row == [c \in DOMAIN question_rows[question_id] |->
                   IF c \in DOMAIN data THEN data[c] ELSE question_rows[question_id][c]]
    IN /\ ~done
       /\ done' = TRUE
       /\ question_rows' = [question_rows EXCEPT ![question_id] = row]
       /\ input' = [call |-> "update_question", id |-> question_id, request |-> request]
       /\ output' = row
       /\ UNCHANGED <<status, duplicate_prevention, section_rows, responses, response_items,
                      op, returned, now, finalized, calls>>

\* update_section(section_id, request) of the service and of the repository
UpdateSection(section_id, request) ==
    LET sections == GetSectionsBySurveyId(section_id)
        existing == IF section_id \in sections
                    THEN [f \in DOMAIN NewSection |-> section_rows[section_id][f]]
                    ELSE NewSection
        data == [f \in DOMAIN existing |->
                    IF request[f] # None THEN request[f] ELSE existing[f]]
        row == [c \in DOMAIN section_rows[section_id] |->
                   IF c \in DOMAIN data THEN data[c] ELSE section_rows[section_id][c]]
    IN /\ ~done
       /\ done' = TRUE
       /\ section_rows' = [section_rows EXCEPT ![section_id] = row]
       /\ input' = [call |-> "update_section", id |-> section_id, request |-> request]
       /\ output' = row
       /\ UNCHANGED <<status, duplicate_prevention, question_rows, responses, response_items,
                      op, returned, now, finalized, calls>>

\* one edit request is served on the stored structure
InitEdit ==
    /\ StoreAtRest(<< >>, << >>)
    /\ input = None
    /\ output = None
    /\ done = FALSE

SpecEdit ==
    InitEdit
    /\ [][(\E q \in DOMAIN StoredRows.questions, request \in QuestionUpdateRequests :
              UpdateQuestion(q, request))
          \/ (\E sec \in DOMAIN StoredRows.sections, body \in SectionUpdateRequests :
                 UpdateSection(sec, body))]_vars

\* surveys handed to _validate_response: q1, q2 in the first section, q3 in
\* the second, each required or not, q2 with or without a min_value rule,
\* q3 hidden or not
ValSections(r1, r2, r3, h3, rules2) ==
    << Section("S0", << Question("q1", "S0", "T1", r1, FALSE, None),
                        Question("q2", "S0", "T2", r2, FALSE, rules2) >>),
       Section("S1", << Question("q3", "S1", "T3", r3, h3, None) >>) >>

\* ResponseItemRequest bodies handed to _validate_response
ValItems == {ResponseItem(q, v, t) : q \in {"q1", "q2"},
                                     v \in {None, Num(0), Str(<< >>)},
                                     t \in {None, Str(<< >>), Str(<<"t">>)}}

\* a survey whose q1 carries validation rules, followed by q2 in a second section
RuleSections(req1, rules, req2) ==
    << Section("S0", << Question("q1", "S0", "T1", req1, FALSE, rules) >>),
       Section("S1", << Question("q2", "S1", "T2", req2, FALSE, None) >>) >>

\* the request answers q1 with value v and text t, or holds no item at all
InitValidateRules(family, ruleset, reqs, values, texts) ==
    \E rules \in ruleset : \E req1 \in reqs : \E req2 \in reqs :
       \E v \in values : \E t \in texts : \E present \in BOOLEAN :
          input = [family |-> family,
                   sections |-> RuleSections(req1, rules, req2),
                   items |-> IF present THEN <<ResponseItem("q1", v, t)>> ELSE << >>]

email == <<"e", "m", "a", "i", "l">>

\* min_length / max_length rules with bounds 0..MaxTextLen, texts of 0..MaxTextLen + 1 characters
LengthRules ==
    LET bounds == {None} \cup {Num(n) : n \in 0..MaxTextLen}
    IN {ValidationRules(minl, maxl, None, None, None) : minl \in bounds, maxl \in bounds}

\* min_value / max_value rules with bounds -1..1, values of every kind
RangeRules ==
    LET bounds == {None} \cup {Num(n) : n \in (-1)..1}
    IN {ValidationRules(None, None, minv, maxv, None) : minv \in bounds, maxv \in bounds}

\* pattern rules, texts over a letter, the at sign and the dot
PatternRules == {ValidationRules(None, None, None, None, pat) :
                    pat \in {None, Str(email), Str(<<"p", "h", "o", "n", "e">>)}}

\* rules of which several can be violated by the one answer ("aa", 5)
OrderRules == {ValidationRules(minl, maxl, minv, maxv, pat) :
                  minl \in {None, Num(4)}, maxl \in {None, Num(1)},
                  minv \in {None, Num(9)}, maxv \in {None, Num(1)},
                  pat \in {None, Str(email)}}

InitValidate ==
    /\ StoreAtRest(<< >>, << >>)
    /\ \/ input \in {[family |-> "required", sections |-> sections, items |-> items] :
                        sections \in {ValSections(r1, r2, r3, h3, rules2) :
                                         r1 \in BOOLEAN, r2 \in BOOLEAN, r3 \in BOOLEAN,
                                         h3 \in BOOLEAN,
                                         rules2 \in {None, ValidationRules(None, None, Num(1),
                                                                           None, None)}},
                        items \in SeqUpTo(ValItems, MaxValItems)}
       \/ InitValidateRules("length", LengthRules, {FALSE}, {None},
             {None} \cup {Str([i \in 1..n |-> "a"]) : n \in 0..(MaxTextLen + 1)})
       \/ InitValidateRules("range", RangeRules, {FALSE},
             {None, Bool(FALSE), Bool(TRUE), Str(<<"5">>), List(<<Num(5)>>)}
                \cup {Num(n) : n \in (-2)..2},
             {None})
       \/ \E t \in SeqUpTo({"a", "@", "."}, MaxEmailLen) :
             InitValidateRules("email", PatternRules, {FALSE}, {None}, {Str(t)})
       \/ InitValidateRules("order", OrderRules, BOOLEAN, {None, Num(5)},
                            {None, Str(<<"a", "a">>)})
    /\ output = None
    /\ done = FALSE

\* self._validate_response(survey, request.items)
ValidateApply ==
    /\ ~done
    /\ output' = ValidateResponse(input.sections, input.items)
    /\ done' = TRUE
    /\ UNCHANGED <<input, storeVars>>

SpecValidate == InitValidate /\ [][ValidateApply]_vars

\* ------------------------------------------- the numbering scheme on its own
\* the id of the section at list position i
SectionId(i) == 100 + i

\* a survey graph: question k sits in section place[k] (0: in no section) and
\* is hidden when k is in hidden; a section lists its questions by ascending id
RECURSIVE QuestionsOf(_, _, _, _)
QuestionsOf(i, place, hidden, k) ==
    IF k > MaxQuestions THEN << >>
    ELSE (IF place[k] = i
          THEN << Question(k, SectionId(i), <<"T">>, FALSE, k \in hidden, None) >>
          ELSE << >>) \o QuestionsOf(i, place, hidden, k + 1)

NumberSections(n, place, hidden) ==
    [i \in 1..n |-> Section(SectionId(i), QuestionsOf(i, place, hidden, 1))]

\* a graph by code: code[k] = 0 leaves question k out, 1..n puts it visible
\* into that section, n+1..2n hidden into section code[k] - n
NumberSurvey(n, code) ==
    NumberSections(n, [k \in 1..MaxQuestions |-> IF code[k] > n THEN code[k] - n ELSE code[k]],
                   {k \in 1..MaxQuestions : code[k] > n})

\* the questions asked about: question id k claiming the section at position i,
\* also a position past the end of the section list
NumberArgs == (1..MaxQuestions) \X (1..(MaxSections + 1))

InitNumber ==
    /\ StoreAtRest(<< >>, << >>)
    /\ \E n \in 0..MaxSections : \E code \in [1..MaxQuestions -> 0..(2 * n)] :
          input = NumberSurvey(n, code)
    /\ output = None
    /\ done = FALSE

\* self._get_question_number(survey, q), for every question asked about
NumberApply ==
    /\ ~done
    /\ output' = [a \in NumberArgs |->
                     GetQuestionNumber(input, Question(a[1], SectionId(a[2]), <<"T">>,
                                                       FALSE, FALSE, None))]
    /\ done' = TRUE
    /\ UNCHANGED <<input, storeVars>>

SpecNumber == InitNumber /\ [][NumberApply]_vars

\* ----------------------------------------------- the aggregator on its own
red == <<"r", "e", "d">>
blue == <<"b", "l", "u", "e">>

\* elements of list-valued answers: two colours, and a number and a text
\* with the same string form
ColourElements == {Str(red), Str(blue)}
OneElements == {Num(1), Str(<<"1">>)}
StatElements == ColourElements \cup OneElements

ListItems ==
    {ResponseItem("q1", List(l), None) :
        l \in SeqUpTo(ColourElements, MaxListLen) \cup SeqUpTo(OneElements, MaxListLen)}
    \cup {ResponseItem("q2", List(<<Str(red)>>), None)}

\* scalar and Likert answers, the Likert mappings with one row and with two,
\* and answers that are free text
NumItems ==
    {ResponseItem("q1", v, None) :
        v \in {None, Num(3), Num(4), Num(5), Bool(TRUE), Str(<<"x">>),
               Dict(<< <<<<"r">>, Num(2)>> >>), Dict(<< <<<<"r">>, Str(<<"y">>)>> >>),
               Dict(<< <<<<"r">>, Num(2)>>, <<<<"s">>, Num(4)>> >>),
               Dict(<< <<<<"r">>, Num(4)>>, <<<<"s">>, Str(<<"y">>)>> >>)}}
    \cup {ResponseItem("q1", None, Str(t)) : t \in {<<"a">>, <<"b">>}}

\* the rows of n responses of survey sA, submitted at times 1..n, all of
\* them completed except, when k > 0, the k-th, which is only started
StatRows(n, k) ==
    [i \in 1..n |-> IF i = k THEN Response("sA")
                    ELSE [Response("sA") EXCEPT !.submitted_at = i, !.is_complete = TRUE]]

InitStatsFamily(family, max, items) ==
    /\ \E n \in 0..max : \E k \in {0, n} : \E its \in [1..n -> items] :
          StoreAtRest(StatRows(n, k), [i \in 1..n |-> <<its[i]>>])
    /\ input = family
    /\ output = None
    /\ done = FALSE

\* answers to the required q1 and to q3, which survey sA hides
HiddenItems == {ResponseItem("q1", Num(1), None), ResponseItem("q3", Num(2), None),
                ResponseItem("q3", None, Str(<<"t">>))}

\* the stored responses hold item lists that submit_response accepted for sA
InitStatsSubmitted(family, max, items) ==
    /\ \E n \in 0..max : \E k \in {0, n} :
          \E its \in [1..n -> {l \in SeqUpTo(items, MaxItems) :
                                  ValidateResponse(Sections("sA"), l) = Ok}] :
             StoreAtRest(StatRows(n, k), its)
    /\ input = family
    /\ output = None
    /\ done = FALSE

InitStats ==
    \/ InitStatsFamily("lists", MaxStatResponses, ListItems)
    \/ InitStatsFamily("scalars", MaxNumResponses, NumItems)
    \/ InitStatsSubmitted("hidden", MaxStatResponses, HiddenItems)

\* get_response_statistics(survey_id)
StatsApply ==
    /\ ~done
    /\ output' = GetResponseStatistics("sA")
    /\ done' = TRUE
    /\ UNCHANGED <<input, storeVars>>

SpecStats == InitStats /\ [][StatsApply]_vars

\* ------------------------------------------------ the renderers on their own
\* the survey graph get_survey_by_id returns for the exported survey:
\* [S0 (q1 "a", q2 "b"), S1 (q3 "c")], the questions of hidden being hidden
ExportSections(hidden) ==
    << Section("S0", << Question("q1", "S0", <<"a">>, FALSE, "q1" \in hidden, None),
                        Question("q2", "S0", <<"b">>, FALSE, "q2" \in hidden, None) >>),
       Section("S1", << Question("q3", "S1", <<"c">>, FALSE, "q3" \in hidden, None) >>) >>

ExportQuestionIds == {"q1", "q2", "q3"}

\* the items of a response that answers the questions of qs, in question
\* order: q1 with the value "v1", q2 with "v2", q3 with "v3"
LayoutItems(qs) ==
    LET ordered == SelectSeq(<<"q1", "q2", "q3">>, LAMBDA q : q \in qs)
        digit(q) == IF q = "q1" THEN "1" ELSE IF q = "q2" THEN "2" ELSE "3"
    IN [k \in 1..Len(ordered) |-> ResponseItem(ordered[k], Str(<<"v", digit(ordered[k])>>), None)]

\* up to max stored responses, each answering some of the questions
InitExportLayout(max, hiddens, family) ==
    /\ \E n \in 0..max : \E k \in {0, n} : \E answered \in [1..n -> SUBSET ExportQuestionIds] :
          StoreAtRest(StatRows(n, k), [i \in 1..n |-> LayoutItems(answered[i])])
    /\ \E hidden \in hiddens : input = [family |-> family, sections |-> ExportSections(hidden)]

\* members of stored lists and mappings: scalars, lists and mappings
CellElements == {None, Num(1), Bool(TRUE), Str(<<"a">>), Str(<<"a", ",", "b">>),
                 List(<<Num(1), Num(2)>>), Dict(<< <<<<"k">>, Num(1)>> >>)}

CellScalars == {None, Num(0), Num(7), Bool(FALSE), Str(<< >>), Str(<<"x">>)}

\* one completed response with one item for q1, of any stored shape
InitExportCells ==
    /\ \E t \in {None, Str(<< >>), Str(<<"t">>), Str(<<"t", "\f">>)} :
          \/ \E v \in CellScalars :
                StoreAtRest(StatRows(1, 0), << <<ResponseItem("q1", v, t)>> >>)
          \/ \E l \in SeqUpTo(CellElements, MaxListLen) :
                StoreAtRest(StatRows(1, 0), << <<ResponseItem("q1", List(l), t)>> >>)
          \/ \E l \in SeqUpTo(CellElements, MaxListLen - 1) :
                StoreAtRest(StatRows(1, 0),
                            << <<ResponseItem("q1",
                                    Dict([i \in 1..Len(l) |-> <<<<"r">> \o NatStr(i), l[i]>>]),
                                    t)>> >>)
    /\ input = [family |-> "cells", sections |-> ExportSections({"q2", "q3"})]

\* one completed response whose answer to q1 is free text over a letter and
\* the characters the CSV format reserves; q2 is answered with a
\* one-character text or not at all
InitExportText ==
    /\ \E alphabet \in {{"a", ",", "\"", "\n", "\r"}} :
       \E t \in SeqUpTo(alphabet, MaxTextLen) : \E u \in SeqUpTo(alphabet, 1) :
          StoreAtRest(StatRows(1, 0),
                      << <<ResponseItem("q1", None, Str(t))>>
                         \o (IF u = << >> THEN << >>
                             ELSE <<ResponseItem("q2", None, Str(u))>>) >>)
    /\ input = [family |-> "text", sections |-> ExportSections({"q3"})]

InitExport ==
    /\ \/ InitExportLayout(MaxStatResponses, SUBSET ExportQuestionIds, "layout")
       \/ InitExportCells
       \/ InitExportText
    /\ output = None
    /\ done = FALSE

\* GET /surveys/{id}/responses/download?format=csv
ExportCsv ==
    /\ ~done
    /\ output' = [format |-> "csv", data |-> GenerateCsv(input.sections, "sA")]
    /\ done' = TRUE
    /\ UNCHANGED <<input, storeVars>>

\* GET /surveys/{id}/responses/download?format=xlsx
ExportXlsx ==
    /\ ~done
    /\ output' = [format |-> "xlsx", data |-> GenerateXlsx(input.sections, "sA", now)]
    /\ done' = TRUE
    /\ UNCHANGED <<input, storeVars>>

SpecExport == InitExport /\ [][ExportCsv \/ ExportXlsx]_vars

\* -------------------------------------------------- repeated export calls
\* the stored data stay as they are while the export is called again and
\* again and the wall clock advances
InitExportAgain ==
    /\ InitExportLayout(MaxStatResponses, {{"q2"}}, "again")
    /\ output = << >>
    /\ done = FALSE

\* a download request served at the current wall-clock time
ExportAt(format) ==
    [format |-> format, at |-> now,
     data |-> IF format = "csv" THEN GenerateCsv(input.sections, "sA")
              ELSE GenerateXlsx(input.sections, "sA", now)]

ExportAgainCsv ==
    /\ Len(output) < MaxExports
    /\ output' = Append(output, ExportAt("csv"))
    /\ done' = TRUE
    /\ UNCHANGED <<input, storeVars>>

ExportAgainXlsx ==
    /\ Len(output) < MaxExports
    /\ output' = Append(output, ExportAt("xlsx"))
    /\ done' = TRUE
    /\ UNCHANGED <<input, storeVars>>

\* time passes between two requests
Tick ==
    /\ now < Len(responses) + MaxTicks
    /\ now' = now + 1
    /\ UNCHANGED <<status, duplicate_prevention, question_rows, section_rows,
                   responses, response_items, op, returned,
                   finalized, calls, pureVars>>

NextExportAgain == ExportAgainCsv \/ ExportAgainXlsx \/ Tick

SpecExportAgain == InitExportAgain /\ [][NextExportAgain]_vars

\* ======================================================= response lifecycle
\* a submit_response request on r is received in this step
SubmitReceived(r) ==
    /\ op[r].pc = "idle"
    /\ \/ op'[r].call = "submit"
       \/ (returned' # None /\ returned'.r = r /\ returned'.call = "submit")

\* C1: a submit_response on an existing response whose survey is draft or
\* closed raises "survey is not accepting responses" and nothing else,
\* whatever the items and the identity info are, and neither the response
\* row nor any stored item changes.
C1_NotAcceptingFirst ==
    [][\A r \in ResponseIds :
          (/\ SubmitReceived(r)
           /\ r \in 1..Len(responses)
           /\ status[responses[r].survey_id] \in {DRAFT, CLOSED})
          => /\ returned' = Returned(r, "submit", [kind |-> "not_accepting"])
             /\ op'[r].pc = "idle"
             /\ responses' = responses
             /\ response_items' = response_items]_vars

\* a submit was refused on a closed survey that once was published
C1_Witness ==
    /\ returned # None
    /\ returned.call = "submit"
    /\ returned.result.kind = "not_accepting"
    /\ status[responses[returned.r].survey_id] = CLOSED

\* a submit_response on r has begun to replace the stored items and has not returned
Replacing(r) == op[r].call = "submit" /\ op[r].pc \in {"s_create", "s_update"}

\* C2: while a submit_response replaces the items of a response, an observer
\* sees the submitted answer set as the stored items if and only if the
\* response is marked is_complete with submitted_at set.
C2_AtomicFinalization ==
    \A r \in 1..Len(responses) :
        Replacing(r) =>
            ((response_items[r] = op[r].items)
                <=> (responses[r].is_complete /\ responses[r].submitted_at # NoTime))

\* C3: once submit_response has succeeded for a response, no later step
\* changes its stored items, its submitted_at or its is_complete flag.
C3_FinalizedOnce ==
    [][\A r \in finalized :
          /\ response_items'[r] = response_items[r]
          /\ responses'[r].submitted_at = responses[r].submitted_at
          /\ responses'[r].is_complete = responses[r].is_complete]_vars

\* some completed response of survey s stores the hash h
CompletedWithHash(s, h) ==
    \E i \in 1..Len(responses) :
        responses[i].is_complete /\ responses[i].survey_id = s /\ responses[i].user_info_hash = h

\* C4: with duplicate_prevention on and identity info supplied, the duplicate
\* check raises "already submitted" exactly when a completed response of
\* the same survey stores the hash of that identity; the error is raised
\* nowhere else, the check runs only with duplicate_prevention on and an
\* identity supplied, and a successful submit stores the hash and the encoded
\* identity on the response.
C4_DuplicateCheck ==
    [][\A r \in ResponseIds :
          /\ (op[r].pc = "s_dup" /\ op'[r] # op[r])
                => /\ duplicate_prevention[op[r].response.survey_id]
                   /\ Truthy(op[r].user_info)
                   /\ (returned' = Returned(r, "submit", [kind |-> "duplicate"]))
                         <=> CompletedWithHash(op[r].response.survey_id,
                                               [kind |-> "sha256", of |-> op[r].user_info.s])
                   /\ op'[r].pc = "s_delete"
                         => /\ op'[r].response.user_info_hash
                                  = [kind |-> "sha256", of |-> op[r].user_info.s]
                            /\ op'[r].response.user_info_encrypted
                                  = [kind |-> "b64", of |-> op[r].user_info.s]
          /\ (returned' # None /\ returned'.r = r /\ returned'.result.kind = "duplicate")
                => op[r].pc = "s_dup"
          /\ (SubmitReceived(r) /\ r \in 1..Len(responses)
                /\ ~(duplicate_prevention[responses[r].survey_id]) )
                => op'[r].pc # "s_dup"
          /\ (op[r].pc = "s_update" /\ returned' = Returned(r, "submit", Ok))
                => /\ responses'[r].user_info_hash = op[r].response.user_info_hash
                   /\ responses'[r].user_info_encrypted = op[r].response.user_info_encrypted
                   /\ responses'[r].is_complete]_vars

\* a second submission with the identity of a completed response of the same
\* survey was refused, while another survey holds a completed response as well
C4_Witness ==
    /\ returned # None
    /\ returned.result.kind = "duplicate"
    /\ \E i \in 1..Len(responses) :
          /\ i # returned.r
          /\ responses[i].is_complete
          /\ responses[i].survey_id = responses[returned.r].survey_id
          /\ responses[i].user_info_hash # None
    /\ ~responses[returned.r].is_complete

\* ============================================================== validator
\* the item the validator keeps for question id q (the last one naming q)
\* carries an answer: a non-null value or a non-empty text
Answered(items, q) ==
    \E i \in 1..Len(items) :
        /\ items[i].question_id = q
        /\ \A j \in (i + 1)..Len(items) : items[j].question_id # q
        /\ \/ items[i].answer_value # None
           \/ (items[i].answer_text.kind = "str" /\ Len(items[i].answer_text.s) > 0)

\* C5: for each required question whose fellow questions are all valid, the
\* validator raises the required-field error naming that question if and
\* only if the items hold no item for it or its item has a null value and a
\* null or empty text; a non-null value or a non-empty text passes the check.
C5_RequiredCheck ==
    done =>
        LET qs == AllQuestions(input.sections)
            item_map == ItemMap(input.items)
        IN \A k \in 1..Len(qs) :
              (/\ qs[k].required
               /\ \A j \in 1..Len(qs) :
                     j # k => ValidateQuestion(qs[j], MapGet(item_map, qs[j].id)) = Ok)
              => /\ (output = [kind |-> "required", title |-> qs[k].title])
                        <=> ~Answered(input.items, qs[k].id)
                 /\ Answered(input.items, qs[k].id) => output.kind # "required"

\* q2 is required and its item has a null value and an empty text, while the
\* required q1 passes with the value 0
C5_Witness ==
    /\ done
    /\ output = [kind |-> "required", title |-> "T2"]
    /\ \E i, j \in 1..Len(input.items) :
          /\ input.items[i] = ResponseItem("q2", None, Str(<< >>))
          /\ input.items[j] = ResponseItem("q1", Num(0), None)
    /\ AllQuestions(input.sections)[1].required

\* ======================================================= response lifecycle
\* C6: every stored response has at most one ResponseItem per question id.
C6_OneItemPerQuestion ==
    \A r \in 1..Len(response_items) :
        \A i, j \in 1..Len(response_items[r]) :
            i # j => response_items[r][i].question_id # response_items[r][j].question_id

\* the items that answer question q in the finalized responses of survey s
FinalizedItemCount(s, q) ==
    LET n[r \in 0..Len(responses)] ==
            IF r = 0 THEN 0
            ELSE n[r - 1]
                 + (IF r \in finalized /\ responses[r].survey_id = s
                    THEN Cardinality({i \in 1..Len(response_items[r]) :
                                         response_items[r][i].question_id = q})
                    ELSE 0)
    IN n[Len(responses)]

\* C7: reporting sees exactly the responses whose submit_response has
\* succeeded: the response list, the export rows, total_responses, every
\* question_stats entry and the duplicate check ignore a response that was
\* only started or saved.
C7_OnlyCompletedReported ==
    \A s \in SurveyIds :
        \A done_ids \in {{r \in finalized : responses[r].survey_id = s}} :
        \A listed \in {GetResponsesBySurveyId(s, TRUE, TRUE)} :
        \A rows \in {GetAllResponsesWithItems(s)} :
        \A stats \in {GetResponseStatistics(s)} :
           /\ {listed[k].id : k \in 1..Len(listed)} = done_ids
           /\ {rows[k].id : k \in 1..Len(rows)} = done_ids
           /\ Len(rows) = Cardinality(done_ids)
           /\ stats.total_responses = Cardinality(done_ids)
           /\ \A q \in {"q1", "q2", "q3", "q4", "q5"} :
                 \A n \in {FinalizedItemCount(s, q)} :
                    IF n = 0
                    THEN q \notin DOMAIN stats.question_stats
                    ELSE /\ q \in DOMAIN stats.question_stats
                         /\ stats.question_stats[q].response_count = n
           /\ \A h \in {responses[i].user_info_hash : i \in 1..Len(responses)} \cup
                       {[kind |-> "sha256", of |-> <<"a">>]} :
                 CheckDuplicateResponse(s, h)
                     => \E r \in done_ids : responses[r].user_info_hash = h

\* one response of a survey has saved items and is not submitted, another one
\* of the same survey is submitted
C7_Witness ==
    \E r1, r2 \in 1..Len(responses) :
        /\ responses[r1].survey_id = responses[r2].survey_id
        /\ r1 \notin finalized
        /\ response_items[r1] # << >>
        /\ op[r1].pc = "idle"
        /\ r2 \in finalized
        /\ response_items[r2] # << >>

\* ============================================================== numbering
CapitalLetters == <<"A", "B", "C", "D", "E", "F">>

\* the label expected for question id a[1] claiming the section at position a[2]
ExpectedLabel(sections, a) ==
    IF a[2] > Len(sections) THEN << >>
    ELSE LET qs == sections[a[2]].questions
             at == {p \in 1..Len(qs) : qs[p].id = a[1] /\ ~qs[p].is_hidden}
         IN IF at = {} THEN << >>
            ELSE LET p == CHOOSE p \in at : TRUE
                     k == Cardinality({j \in 1..p : ~qs[j].is_hidden})
                 IN <<CapitalLetters[a[2]], DigitChars[k + 1]>>

\* sections [S0 (q1, q2 visible, q3 hidden), S1 (q4 visible)]
ExampleSections ==
    NumberSections(2, [k \in 1..MaxQuestions |-> IF k <= 3 THEN 1 ELSE IF k = 4 THEN 2 ELSE 0],
                   {3})

\* C8: the label of a question found in sections[i] at 1-based position k
\* among the non-hidden questions of that section is the i-th capital letter
\* followed by k; a hidden question, one whose section is not in the survey
\* and one not in its claimed section get the empty label; the example survey
\* gives exactly A1, A2, B1; distinct visible questions get distinct labels.
C8_Labels ==
    done =>
        /\ \A a \in NumberArgs : output[a] = ExpectedLabel(input, a)
        /\ input = ExampleSections
              => /\ output[<<1, 1>>] = <<"A", "1">>
                 /\ output[<<2, 1>>] = <<"A", "2">>
                 /\ output[<<4, 2>>] = <<"B", "1">>
                 /\ \A a \in NumberArgs \ {<<1, 1>>, <<2, 1>>, <<4, 2>>} : output[a] = << >>
        /\ \A a, b \in NumberArgs :
              (a # b /\ output[a] # << >> /\ output[b] # << >>) => output[a] # output[b]

\* the example survey has been labelled: the hidden q3 has no label and q4 is B1
C8_Witness ==
    /\ done
    /\ input = ExampleSections
    /\ output[<<3, 1>>] = << >>
    /\ output[<<4, 2>>] = <<"B", "1">>

\* ============================================================== aggregator
CompletedIds == {r \in 1..Len(responses) : responses[r].is_complete}

\* the items of completed responses that answer question q
ItemSlots(q) ==
    UNION {{<<r, i>> : i \in {i \in 1..Len(response_items[r]) :
                                response_items[r][i].question_id = q}} : r \in CompletedIds}

\* the list elements of those items
ElementSlots(q) ==
    UNION {{<<t[1], t[2], j>> :
               j \in 1..(IF response_items[t[1]][t[2]].answer_value.kind = "list"
                         THEN Len(response_items[t[1]][t[2]].answer_value.l) ELSE 0)} :
           t \in ItemSlots(q)}

Element(t) == response_items[t[1]][t[2]].answer_value.l[t[3]]

\* the count a value_counts table holds for a key, 0 for an absent key
CountOf(value_counts, key) ==
    LET hits == {i \in 1..Len(value_counts) : value_counts[i][1] = key}
    IN IF hits = {} THEN 0 ELSE value_counts[CHOOSE i \in hits : TRUE][2]

\* the answers ["red", "blue"] and ["red"] to q1 in two completed responses
C9_Example ==
    /\ responses = StatRows(2, 0)
    /\ response_items = << <<ResponseItem("q1", List(<<Str(red), Str(blue)>>), None)>>,
                           <<ResponseItem("q1", List(<<Str(red)>>), None)>> >>

\* C9 (as amended): for questions answered by lists, value_counts[q][k] is
\* the number of list elements whose string form is k over q's items in all
\* completed responses (elements with the same string form share a key), no
\* other key is present, ["red", "blue"] and ["red"] give exactly
\* {red: 2, blue: 1}, and response_count[q] is the number of items for q.
C9_ElementCounts ==
    (done /\ input = "lists") =>
        /\ \A q \in {"q1", "q2"} :
              IF ItemSlots(q) = {} THEN q \notin DOMAIN output.question_stats
              ELSE LET st == output.question_stats[q]
                       keys == {st.value_counts[i][1] : i \in 1..Len(st.value_counts)}
                   IN /\ st.response_count = Cardinality(ItemSlots(q))
                      /\ Cardinality(keys) = Len(st.value_counts)
                      /\ \A key \in keys \cup {PyStr(v) : v \in StatElements} :
                            CountOf(st.value_counts, key)
                               = Cardinality({t \in ElementSlots(q) : PyStr(Element(t)) = key})
        /\ C9_Example
              => LET vc == output.question_stats["q1"].value_counts
                 IN {vc[i] : i \in 1..Len(vc)} = {<<red, 2>>, <<blue, 1>>}

\* the example has been aggregated
C9_Witness ==
    /\ done
    /\ input = "lists"
    /\ C9_Example
    /\ output.total_responses = 2
    /\ output.question_stats["q1"].response_count = 2

\* C9 (as stated): for every question q and value v, value_counts[q][str(v)]
\* equals the number of occurrences of v over the answer lists of q's items
\* in all completed responses, and response_count[q] is the number of items.
C9_OccurrenceCounts ==
    (done /\ input = "lists") =>
        \A q \in {"q1", "q2"} :
            ItemSlots(q) # {} =>
                LET st == output.question_stats[q]
                IN /\ st.response_count = Cardinality(ItemSlots(q))
                   /\ \A v \in StatElements :
                         CountOf(st.value_counts, PyStr(v))
                            = Cardinality({t \in ElementSlots(q) : Element(t) = v})

\* the numbers among a Likert mapping's row values
RECURSIVE RowNumbers(_)
RowNumbers(d) ==
    IF d = << >> THEN << >>
    ELSE (IF d[1][2].kind = "num" THEN <<d[1][2].n>> ELSE << >>) \o RowNumbers(Tail(d))

\* the numeric values an answer contributes: a number, or the numbers among
\* the rows of a Likert mapping; a string or a boolean contributes none
NumbersOf(v) ==
    IF v.kind = "num" THEN <<v.n>>
    ELSE IF v.kind = "dict" THEN RowNumbers(v.d)
    ELSE << >>

\* the numeric values of q's items in the completed responses 1..r
RECURSIVE NumbersUpTo(_, _)
NumbersUpTo(q, r) ==
    IF r = 0 THEN << >>
    ELSE NumbersUpTo(q, r - 1)
         \o (IF r \in CompletedIds /\ response_items[r] # << >>
                /\ response_items[r][1].question_id = q
             THEN NumbersOf(response_items[r][1].answer_value) ELSE << >>)

RECURSIVE SeqSum(_)
SeqSum(ns) == IF ns = << >> THEN 0 ELSE ns[1] + SeqSum(Tail(ns))

\* C10: a question's statistics carry an average if and only if a numeric
\* value was accumulated for it (a numeric scalar answer or a numeric Likert
\* row value); the average is the sum of those values divided by their count
\* (3, 4, 5 give 4); a question with only non-numeric answers has no average.
C10_AverageIffNumeric ==
    (done /\ input = "scalars") =>
        \A q \in DOMAIN output.question_stats :
            LET st == output.question_stats[q]
                nums == NumbersUpTo(q, Len(responses))
            IN /\ (st.average # None) <=> (nums # << >>)
               /\ st.average # None
                     => st.average.sum * Len(nums) = SeqSum(nums) * st.average.count
               /\ (\E f \in [1..3 -> 1..3] :
                      nums = [i \in 1..3 |-> <<3, 4, 5>>[f[i]]] /\ {f[i] : i \in 1..3} = 1..3)
                     => /\ st.average # None
                        /\ st.average.sum = 4 * st.average.count

\* the ids of the questions survey s hides
HiddenQuestionIds(s) ==
    {AllQuestions(Sections(s))[k].id : k \in {k \in 1..Len(AllQuestions(Sections(s))) :
                                                AllQuestions(Sections(s))[k].is_hidden}}

\* C11: the report of the statistics operation has no question_stats entry
\* for a question with is_hidden = true, whatever the completed responses hold.
C11_HiddenExcluded ==
    (done /\ input = "hidden") =>
        \A q \in HiddenQuestionIds("sA") : q \notin DOMAIN output.question_stats

\* ================================================================ renderers
\* the character of a code point, by the tables of the encoder
CharOf(cp) ==
    IF cp >= 32 /\ cp <= 126 THEN AsciiFrom32[cp - 31]
    ELSE NamedCodePoints[CHOOSE i \in 1..Len(NamedCodePoints) : NamedCodePoints[i][2] = cp][1]

\* the positions a..b as a sequence
Positions(a, b) == [k \in 1..(b - a + 1) |-> a + k - 1]

\* a UTF-8 decoder for code points below 2^16: a character starts at every
\* byte that is not a continuation byte
Utf8Decode(bytes) ==
    LET starts == SelectSeq(Positions(1, Len(bytes)),
                            LAMBDA i : bytes[i] < 128 \/ bytes[i] >= 192)
    IN [k \in 1..Len(starts) |->
           LET i == starts[k]
           IN IF bytes[i] < 128 THEN CharOf(bytes[i])
              ELSE IF bytes[i] < 224
              THEN CharOf((bytes[i] - 192) * 64 + (bytes[i + 1] - 128))
              ELSE CharOf((bytes[i] - 224) * 4096 + (bytes[i + 1] - 128) * 64
                          + (bytes[i + 2] - 128))]

\* A CSV parser after RFC 4180: fields separated by commas, records ended by
\* a line break, a field in double quotes holding any character, a quote in
\* it written twice.  A character is outside quoted fields when an even
\* number of quotes stands before it; outside[i] says so for position i.

\* the field t[x..y]: without its enclosing quotes and with every doubled
\* quote read as one, when it starts with a quote
CsvUnquote(t, x, y) ==
    IF x <= y /\ t[x] = "\""
    THEN LET kept == SelectSeq(Positions(x + 1, y),
                               LAMBDA i : \/ t[i] # "\""
                                          \/ Cardinality({j \in (x + 1)..i : t[j] = "\""}) % 2 = 0)
         IN [k \in 1..Len(kept) |-> t[kept[k]]]
    ELSE SubSeq(t, x, y)

\* the fields of the record t[a..b]
CsvFields(t, outside, a, b) ==
    LET commas == SelectSeq(Positions(a, b), LAMBDA i : t[i] = "," /\ outside[i])
        from(k) == IF k = 1 THEN a ELSE commas[k - 1] + 1
        to(k) == IF k = Len(commas) + 1 THEN b ELSE commas[k] - 1
    IN [k \in 1..(Len(commas) + 1) |-> CsvUnquote(t, from(k), to(k))]

CsvRecords(t, outside) ==
    LET breaks == SelectSeq(Positions(1, Len(t)),
                            LAMBDA i : /\ outside[i]
                                       /\ \/ t[i] = "\n"
                                          \/ (t[i] = "\r" /\ ~(i < Len(t) /\ t[i + 1] = "\n")))
        ends == IF breaks # << >> /\ breaks[Len(breaks)] = Len(t) THEN breaks
                ELSE Append(breaks, Len(t) + 1)
        from(k) == IF k = 1 THEN 1 ELSE ends[k - 1] + 1
        to(k) == IF ends[k] <= Len(t) /\ t[ends[k]] = "\n" /\ ends[k] > from(k)
                    /\ t[ends[k] - 1] = "\r"
                 THEN ends[k] - 2 ELSE ends[k] - 1
        filled == SelectSeq(Positions(1, Len(ends)), LAMBDA k : from(k) <= to(k))
    IN [r \in 1..Len(filled) |-> CsvFields(t, outside, from(filled[r]), to(filled[r]))]

CsvParse(t) ==
    CsvRecords(t, [i \in 1..Len(t) |->
                      t[i] # "\"" /\ Cardinality({j \in 1..(i - 1) : t[j] = "\""}) % 2 = 0])

\* the table a reader of the exported file sees: the records of the CSV file
\* after its byte order mark, or the cells of the first sheet of the workbook
RenderedTable ==
    IF output.format = "csv" THEN CsvParse(Tail(Utf8Decode(output.data)))
    ELSE [i \in 1..Len(output.data.sheets[1].rows) |->
             [j \in 1..Len(output.data.sheets[1].rows[i]) |->
                 output.data.sheets[1].rows[i][j].s]]

\* an export has returned a file
Rendered == done /\ (output.format = "xlsx" => output.data.kind = "xlsx")

\* the visible questions as (section position, question position) pairs
ColumnPairs(sections) ==
    {p \in (1..Len(sections)) \X (1..3) :
        /\ p[2] <= Len(sections[p[1]].questions)
        /\ ~sections[p[1]].questions[p[2]].is_hidden}

\* the column of a visible question: 2 fixed columns, then the visible
\* questions before it in (section, question) order
ColumnOf(sections, p) ==
    3 + Cardinality({o \in ColumnPairs(sections) :
                        o[1] < p[1] \/ (o[1] = p[1] /\ o[2] < p[2])})

ExpectedTitle(sections, p) ==
    LET q == sections[p[1]].questions[p[2]]
        label == ExpectedLabel(sections, <<q.id, p[1]>>)
    IN IF label = << >> THEN q.title ELSE label \o <<".", " ">> \o q.title

\* C12: the exported table (CSV and workbook alike) has a header of 2 + V
\* columns, V the number of visible questions: the visible questions in
\* section order then question order, titled "label. title" (the bare title
\* without a label); there is one further row per completed response, each of
\* 2 + V cells, and the cell of a question the response has no item for is empty.
C12_Layout ==
    Rendered =>
        \A table \in {RenderedTable} :
           LET sections == input.sections
               V == Cardinality(ColumnPairs(sections))
           IN /\ Len(table) = 1 + Cardinality(CompletedIds)
              /\ \A i \in 1..Len(table) : Len(table[i]) = 2 + V
              /\ \A p \in ColumnPairs(sections) :
                    table[1][ColumnOf(sections, p)] = ExpectedTitle(sections, p)
              /\ \A r \in CompletedIds :
                    \E i \in 2..Len(table) :
                       /\ table[i][1] = ResponseIdStr(r)
                       /\ \A p \in ColumnPairs(sections) :
                             (\A k \in 1..Len(response_items[r]) :
                                 response_items[r][k].question_id
                                    # sections[p[1]].questions[p[2]].id)
                                => table[i][ColumnOf(sections, p)] = << >>

\* a CSV export of a survey that hides q2, with two completed responses, the
\* first of which answers the hidden q2 and nothing else
C12_Witness ==
    /\ done
    /\ output.format = "csv"
    /\ input.family = "layout"
    /\ input.sections = ExportSections({"q2"})
    /\ Cardinality(CompletedIds) = 2
    /\ response_items[1] = LayoutItems({"q2"})
    /\ response_items[2] = LayoutItems({"q1", "q3"})

\* the string form of a scalar, written out case by case
ShownScalar(v) ==
    IF v.kind = "num" THEN IntStr(v.n)
    ELSE IF v.kind = "bool" THEN (IF v.b THEN <<"T", "r", "u", "e">>
                                         ELSE <<"F", "a", "l", "s", "e">>)
    ELSE v.s

\* the single item of the single response of the cells family
TheItem == response_items[1][1]

\* the cell of q1 in the row of that response
TheCell(table) == table[2][3]

\* C13: a cell shows a non-empty answer_text verbatim, whatever the value;
\* otherwise a list value as the string forms of its elements joined by
\* ", ", a mapping value as its JSON text, any other non-null value as its
\* string form, and nothing for a null value.
C13_CellPriority ==
    (Rendered /\ input.family = "cells") =>
        \A cell \in {TheCell(RenderedTable)} :
           LET text == TheItem.answer_text
               value == TheItem.answer_value
           IN /\ (text.kind = "str" /\ text.s # << >>) => cell = text.s
              /\ (text = None \/ text = Str(<< >>)) =>
                    /\ value.kind = "list" =>
                          cell = JoinText([i \in 1..Len(value.l) |-> PyStr(value.l[i])],
                                          <<",", " ">>)
                    /\ value.kind = "dict" => cell = JsonDumps(value)
                    /\ value.kind \in {"num", "bool", "str"} => cell = ShownScalar(value)
                    /\ value = None => cell = << >>
              /\ (text = None /\ value = List(<<Str(<<"a">>), Num(1)>>))
                    => cell = <<"a", ",", " ", "1">>
              /\ (text = None /\ value = Dict(<< <<<<"r", "1">>, Num(1)>> >>))
                    => cell = <<"{", "\"", "r", "1", "\"", ":", " ", "1", "}">>

\* a workbook export of an item that has both the text "t" and a list value
C13_Witness ==
    /\ done
    /\ input.family = "cells"
    /\ output.format = "xlsx"
    /\ output.data.kind = "xlsx"
    /\ TheItem.answer_text = Str(<<"t">>)
    /\ TheItem.answer_value = List(<<Str(<<"a">>), Num(1)>>)
    /\ output.data.sheets[1].rows[2][3] = Str(<<"t">>)

\* C14: two export calls of the same format over the same survey structure
\* and the same stored responses return identical files.
C14_Deterministic ==
    \A i, j \in 1..Len(output) :
        output[i].format = output[j].format => output[i].data = output[j].data

\* the free text stored for q1 in the text family
TheText == response_items[1][1].answer_text.s

\* C15: parsing the CSV file after its byte order mark with a standard CSV
\* parser gives back every non-empty answer_text exactly, commas, quotes and
\* line breaks included, and the data row has as many fields as the header.
C15_CsvRoundTrip ==
    (done /\ input.family = "text" /\ output.format = "csv") =>
        \A text \in {Utf8Decode(output.data)} :
           /\ text[1] = BOM
           /\ \A table \in {CsvParse(Tail(text))} :
                 /\ Len(table) = 2
                 /\ Len(table[2]) = Len(table[1])
                 /\ TheText # << >> => table[2][3] = TheText
                 /\ Len(response_items[1]) = 2 => table[2][4] = response_items[1][2].answer_text.s

\* a CSV export of a response whose text for q1 is a quote followed by a
\* comma and whose text for q2 is a line feed
C15_Witness ==
    /\ done
    /\ input.family = "text"
    /\ output.format = "csv"
    /\ TheText = <<"\"", ",">>
    /\ Len(response_items[1]) = 2
    /\ response_items[1][2].answer_text.s = <<"\n">>

\* C16: whatever the shape of the stored answer (null, scalar, list with
\* scalar or nested members, mapping with scalar or nested values) and
\* whatever its answer_text, the export returns a file: the statistics are
\* computed and the CSV file or the workbook is rendered without an error.
C16_NeverFails ==
    (done /\ input.family = "cells") =>
        /\ output.format = "csv" => Len(output.data) > 0
        /\ output.format = "xlsx" => output.data.kind = "xlsx"

\* ================================================================ validator
\* the rules of q1 and the item the request holds for it, in the rule families
TheRules == input.sections[1].questions[1].validation_rules
TheAnswer == input.items[1]

\* C17: for an item with a non-empty answer_text and rules with min_length
\* and/or max_length (any bound from 0 on), validation fails with the
\* text-length error exactly when the number of characters is below
\* min_length or above max_length; a length equal to a bound is accepted.
C17_LengthBounds ==
    (done /\ input.family = "length" /\ input.items # << >>
          /\ TheAnswer.answer_text.kind = "str" /\ TheAnswer.answer_text.s # << >>) =>
        LET n == Len(TheAnswer.answer_text.s)
            below == TheRules.min_length # None /\ n < TheRules.min_length.n
            above == TheRules.max_length # None /\ n > TheRules.max_length.n
        IN /\ (output.kind \in {"min_length", "max_length"}) <=> (below \/ above)
           /\ (~below /\ ~above) => output = Ok

\* C18: for an item whose answer_value is a number and rules with min_value
\* and/or max_value (0 included), validation fails with the numeric-range
\* error exactly when the value is below min_value or above max_value, a
\* value equal to a bound being accepted; an answer_value that is not a
\* number (null, boolean, string, list) is never range-checked.
C18_NumericRange ==
    (done /\ input.family = "range" /\ input.items # << >>) =>
        LET v == TheAnswer.answer_value
            below == TheRules.min_value # None /\ v.n < TheRules.min_value.n
            above == TheRules.max_value # None /\ v.n > TheRules.max_value.n
        IN IF v.kind = "num"
           THEN /\ (output.kind \in {"min_value", "max_value"}) <=> (below \/ above)
                /\ (~below /\ ~above) => output = Ok
           ELSE output = Ok

\* the checks in the order the validator is said to run them
CheckOrder == <<"required", "min_length", "max_length", "pattern", "min_value", "max_value">>

\* the item the request holds for question id q: the last one, or None
ItemFor(q) ==
    LET at == {i \in 1..Len(input.items) : input.items[i].question_id = q}
    IN IF at = {} THEN None ELSE input.items[CHOOSE i \in at : \A j \in at : j <= i]

\* the checks that question and item violate, each taken on its own
ViolatedChecks(question, item) ==
    LET rules == question.validation_rules
        ruled == item # None /\ rules # None
        texted == ruled /\ Truthy(item.answer_text)
        valued == ruled /\ item.answer_value.kind \in {"num", "bool"}
    IN {c \in {"required"} : question.required /\ RequiredMissing(item)}
       \cup {c \in {"min_length"} :
                texted /\ Truthy(rules.min_length)
                       /\ Len(item.answer_text.s) < rules.min_length.n}
       \cup {c \in {"max_length"} :
                texted /\ Truthy(rules.max_length)
                       /\ Len(item.answer_text.s) > rules.max_length.n}
       \cup {c \in {"pattern"} :
                texted /\ rules.pattern = Str(email) /\ ~EmailMatch(item.answer_text.s)}
       \cup {c \in {"min_value"} :
                valued /\ rules.min_value # None
                       /\ NumericValue(item.answer_value) < rules.min_value.n}
       \cup {c \in {"max_value"} :
                valued /\ rules.max_value # None
                       /\ NumericValue(item.answer_value) > rules.max_value.n}

\* the positions (section, question) of the questions with a violated check
ViolatingPositions ==
    {p \in (1..Len(input.sections)) \X (1..2) :
        /\ p[2] <= Len(input.sections[p[1]].questions)
        /\ ViolatedChecks(input.sections[p[1]].questions[p[2]],
                          ItemFor(input.sections[p[1]].questions[p[2]].id)) # {}}

\* C19: the validator reports exactly one error: that of the first question,
\* in section order then question order, that violates a check, and of that
\* question the first violated check in the order required, min_length,
\* max_length, email pattern, min_value, max_value; with no violation it
\* reports none.
C19_FailFast ==
    done =>
        IF ViolatingPositions = {} THEN output = Ok
        ELSE LET p == CHOOSE p \in ViolatingPositions :
                         \A o \in ViolatingPositions :
                            p[1] < o[1] \/ (p[1] = o[1] /\ p[2] <= o[2])
                 question == input.sections[p[1]].questions[p[2]]
                 checks == ViolatedChecks(question, ItemFor(question.id))
                 first == CHOOSE i \in 1..Len(CheckOrder) :
                             /\ CheckOrder[i] \in checks
                             /\ \A j \in 1..(i - 1) : CheckOrder[j] \notin checks
             IN output = Err(CheckOrder[first], question.title)

\* the answer ("aa", 5) to q1 violates min_length, max_length, the email
\* pattern, min_value and max_value at once, the required q2 has no item,
\* and the error is the min_length error of q1
C19_Witness ==
    /\ done
    /\ input.family = "order"
    /\ input.items = <<ResponseItem("q1", Num(5), Str(<<"a", "a">>))>>
    /\ TheRules = ValidationRules(Num(4), Num(1), Num(9), Num(1), Str(email))
    /\ input.sections[2].questions[1].required
    /\ output = Err("min_length", "T1")

\* the whole text is local@domain.tld: a run without "@", one "@", then a
\* run without "@" in which some "." has a character before it and one after it
WholeEmailShape(t) ==
    \E a \in 2..Len(t) :
        /\ t[a] = "@"
        /\ \A i \in 1..Len(t) : i # a => t[i] # "@"
        /\ \E b \in (a + 2)..(Len(t) - 1) : t[b] = "."

\* C20: under the pattern tag "email" a non-empty answer_text is accepted if
\* and only if the whole text has the shape local@domain.tld, and any other
\* text gets the pattern error; under any other pattern tag nothing fails.
C20_EmailRule ==
    (done /\ input.family = "email" /\ input.items # << >>
          /\ TheAnswer.answer_text.s # << >>) =>
        IF TheRules.pattern = Str(email)
        THEN /\ output = Ok <=> WholeEmailShape(TheAnswer.answer_text.s)
             /\ output # Ok => output = Err("pattern", "T1")
        ELSE output = Ok

\* ============================================================= concurrency
\* the completed responses other than r that carry the hash and the survey
\* with which the request in flight on r is about to be finalized
SameIdentity(r) ==
    {o \in 1..Len(responses) :
        /\ o # r
        /\ responses[o].is_complete
        /\ responses[o].survey_id = op[r].response.survey_id
        /\ responses[o].user_info_hash = op[r].response.user_info_hash}

\* C21: there is no atomic check-and-set: a response is finalized with an
\* identity hash that a completed response of the same survey already
\* carries only when the two submissions overlapped, that is when the other
\* one was finalized after the duplicate check of this one had passed.
C21_RaceOnlyWhenOverlapping ==
    [][\A r \in ResponseIds :
          (/\ op[r].pc = "s_update"
           /\ r \in finalized' \ finalized
           /\ op[r].response.user_info_hash # None)
          => \A o \in SameIdentity(r) : responses[o].submitted_at > op[r].checked_at]_vars

\* two submissions with the same identity info have both ended completed,
\* for two responses of the same survey, with the same hash
C21_Witness ==
    /\ Len(responses) >= 2
    /\ responses[1].is_complete
    /\ responses[2].is_complete
    /\ responses[1].survey_id = responses[2].survey_id
    /\ responses[1].user_info_hash # None
    /\ responses[1].user_info_hash = responses[2].user_info_hash
    /\ duplicate_prevention[responses[1].survey_id]

LikertPairs(q, k) ==
    {<<sl, j>> \in ItemSlots(q) \X (1..2) :
        LET v == response_items[sl[1]][sl[2]].answer_value
        IN /\ v # None
           /\ v.kind = "dict"
           /\ j <= Len(v.d)
           /\ v.d[j][1] \o <<":">> \o PyStr(v.d[j][2]) = k}

\* q's items in completed responses whose answer is a scalar with string k
ScalarHits(q, k) ==
    {sl \in ItemSlots(q) :
        LET v == response_items[sl[1]][sl[2]].answer_value
        IN /\ v # None
           /\ v.kind \notin {"dict", "list"}
           /\ PyStr(v) = k}

LikertKeys == {<<c>> \o <<":">> \o v : c \in {"r", "s"}, v \in {<<"2">>, <<"4">>, <<"y">>}}
BareKeys == {<<"2">>, <<"3">>, <<"4">>, <<"5">>, <<"y">>, <<"x">>, <<"T", "r", "u", "e">>}

\* the numeric values among q's answers in completed responses: <<slot, 0>>
\* for a numeric scalar answer, <<slot, j>> for a numeric value of row j
NumericEntries(q) ==
    {e \in ItemSlots(q) \X (0..2) :
        LET v == response_items[e[1][1]][e[1][2]].answer_value
        IN /\ v # None
           /\ IF e[2] = 0 THEN IsNumeric(v)
              ELSE v.kind = "dict" /\ e[2] <= Len(v.d) /\ IsNumeric(v.d[e[2]][2])}

EntryValue(e) ==
    LET v == response_items[e[1][1]][e[1][2]].answer_value
    IN NumericValue(IF e[2] = 0 THEN v ELSE v.d[e[2]][2])

RECURSIVE EntrySum(_)
EntrySum(es) ==
    IF es = {} THEN 0
    ELSE LET e == CHOOSE e \in es : TRUE IN EntryValue(e) + EntrySum(es \ {e})

\* C23: for an item whose answer_value is a row-keyed mapping, every (row,
\* value) pair adds one to value_counts["{row}:{value}"] and every numeric
\* value joins the question's one numeric accumulator; a mapping's value is
\* not counted under its bare string, and response_count grows by one per
\* item, whatever the number of rows.
C23_LikertAggregation ==
    (done /\ input = "scalars") =>
        \A q \in DOMAIN output.question_stats :
            LET st == output.question_stats[q]
            IN /\ st.response_count = Cardinality(ItemSlots(q))
               /\ \A k \in LikertKeys :
                     CountOf(st.value_counts, k) = Cardinality(LikertPairs(q, k))
               /\ \A k \in BareKeys :
                     CountOf(st.value_counts, k) = Cardinality(ScalarHits(q, k))
               /\ Len(st.numeric_values) = Cardinality(NumericEntries(q))
               /\ SumNumeric(st.numeric_values) = EntrySum(NumericEntries(q))

\* a two-row mapping with the values 2 and 4 and a scalar 4 were aggregated:
\* one item each, the 4 of the row apart from the 4 of the scalar
C23_Witness ==
    /\ done
    /\ input = "scalars"
    /\ Len(responses) = 2
    /\ CompletedIds = {1, 2}
    /\ response_items[1][1].answer_value = Dict(<< <<<<"r">>, Num(2)>>, <<<<"s">>, Num(4)>> >>)
    /\ response_items[2][1].answer_value = Num(4)
    /\ output.question_stats["q1"].response_count = 2
    /\ CountOf(output.question_stats["q1"].value_counts, <<"s", ":", "4">>) = 1
    /\ CountOf(output.question_stats["q1"].value_counts, <<"4">>) = 1
    /\ Len(output.question_stats["q1"].numeric_values) = 3

\* the non-empty texts among the items of response r that answer q
RECURSIVE TextsOf(_, _)
TextsOf(q, items) ==
    IF items = << >> THEN << >>
    ELSE (IF items[1].question_id = q /\ Truthy(items[1].answer_text)
          THEN <<items[1].answer_text.s>> ELSE << >>) \o TextsOf(q, Tail(items))

\* the texts answering q in the completed responses submitted at times 1..t,
\* the earlier submission first
RECURSIVE TextsUpTo(_, _)
TextsUpTo(q, t) ==
    IF t = 0 THEN << >>
    ELSE TextsUpTo(q, t - 1)
         \o (IF \E r \in CompletedIds : responses[r].submitted_at = t
             THEN TextsOf(q, response_items[CHOOSE r \in CompletedIds :
                                               responses[r].submitted_at = t])
             ELSE << >>)

\* C24: text_responses of a question holds exactly the non-empty answer_text
\* values of its items in completed responses, one entry per item and no
\* deduplication, the text of an earlier-submitted response before the text
\* of a later-submitted one.
C24_TextsInSubmissionOrder ==
    (done /\ input = "scalars") =>
        \A q \in DOMAIN output.question_stats :
            output.question_stats[q].text_responses = TextsUpTo(q, MaxNumResponses)

\* ================================================= the renderers side by side
\* C25: for the same survey and the same completed responses, the rows of
\* the first sheet of the workbook (the header, then one row per response in
\* the same response order) equal, cell for cell, the records of the CSV file.
C25_RenderersAgree ==
    (Rendered /\ output.format = "xlsx") =>
        \A records \in {CsvParse(Tail(Utf8Decode(GenerateCsv(input.sections, "sA"))))} :
           /\ Len(records) = Len(RenderedTable)
           /\ \A i \in 1..Len(records) :
                 /\ Len(records[i]) = Len(RenderedTable[i])
                 /\ \A j \in 1..Len(records[i]) : records[i][j] = RenderedTable[i][j]

\* a workbook of a response whose text for q1 is a quote followed by a comma
\* (a field the CSV writer quotes), and a workbook of two completed responses
C25_Witness ==
    /\ Rendered
    /\ output.format = "xlsx"
    /\ \/ input.family = "text" /\ TheText = <<"\"", ",">>
       \/ input.family = "layout" /\ Cardinality(CompletedIds) = 2
                                  /\ \E r \in CompletedIds : response_items[r] # << >>

\* ====================================================== failed submissions
\* a submit_response call ends at this step with one of the refusals of
\* lines 45-70: response or survey not found, survey not accepting,
\* duplicate submission, or a validation violation
SubmitRefused(r) ==
    /\ returned' # None
    /\ returned'.r = r
    /\ returned'.call = "submit"
    /\ returned'.result # Ok
    /\ returned'.result.kind # "persistence"

\* C26: a refused submit_response (response not found, survey not found,
\* survey not accepting responses, duplicate submission, validation
\* violation) leaves the stored responses and items as they were before the
\* call: the refusal comes from the first step of the call or from its
\* duplicate check, and neither these nor the step that leads to the
\* duplicate check writes anything.
C26_RefusedSubmitChangesNothing ==
    [][\A r \in ResponseIds :
          /\ SubmitRefused(r)
                => /\ op[r].pc \in {"idle", "s_dup"}
                   /\ responses' = responses
                   /\ response_items' = response_items
          /\ (op[r].pc = "idle" /\ op'[r].pc = "s_dup")
                => /\ responses' = responses
                   /\ response_items' = response_items]_vars

\* a submit with an identity was refused by the validator while items saved
\* earlier are in place: they are still there and the row is not completed
C26_Witness ==
    /\ returned # None
    /\ returned.call = "submit"
    /\ returned.result \notin {Ok, [kind |-> "persistence"], [kind |-> "duplicate"],
                               [kind |-> "not_accepting"], [kind |-> "response_not_found"]}
    /\ returned.r <= Len(responses)
    /\ duplicate_prevention[responses[returned.r].survey_id]
    /\ response_items[returned.r] # << >>
    /\ ~responses[returned.r].is_complete
    /\ responses[returned.r].user_info_hash = None

\* ============================================================ partial updates
\* the columns an update request can name
Editable(row) == DOMAIN row \ {"section_id", "survey_id"}

\* the stored row keeps every column the request leaves null and takes the
\* value of every column the request names
KeepsUnnamed(before, after, request) ==
    /\ DOMAIN after = DOMAIN before
    /\ \A c \in DOMAIN before \ Editable(before) : after[c] = before[c]
    /\ \A c \in Editable(before) :
          after[c] = IF request[c] = None THEN before[c] ELSE request[c]

\* C27: update_question and update_section change only the fields that are
\* present (non-null) in the update request; every other stored field of
\* that question or section keeps its previous value, and the rows of the
\* other questions and sections are not touched.
C27_PartialUpdate ==
    [][done' /\ ~done =>
          /\ \A q \in DOMAIN question_rows :
                IF input'.call = "update_question" /\ input'.id = q
                THEN KeepsUnnamed(question_rows[q], question_rows'[q], input'.request)
                ELSE question_rows'[q] = question_rows[q]
          /\ \A sec \in DOMAIN section_rows :
                IF input'.call = "update_section" /\ input'.id = sec
                THEN KeepsUnnamed(section_rows[sec], section_rows'[sec], input'.request)
                ELSE section_rows'[sec] = section_rows[sec]]_vars

\* ============================================================ hidden questions
\* C28: a submission that gives a valid answer to every non-hidden required
\* question (and breaks no rule of a question it answers) is accepted by the
\* validator, even when a required question with is_hidden = true has no
\* item in the submission.
C28_HiddenDoesNotBlock ==
    (done /\ input.family = "required") =>
        LET qs == AllQuestions(input.sections)
            item_map == ItemMap(input.items)
        IN (\A k \in 1..Len(qs) :
               ~qs[k].is_hidden => ValidateQuestion(qs[k], MapGet(item_map, qs[k].id)) = Ok)
           => output = Ok

\* ===================================================== completion and time
\* C29: in every reachable state, every stored response has is_complete true
\* if and only if its submitted_at is set: start_response stores neither,
\* update_response_items changes neither, submit_response sets both in the
\* one update.
C29_CompleteIffSubmittedAt ==
    \A r \in 1..Len(responses) :
        responses[r].is_complete <=> responses[r].submitted_at # NoTime

\* one response was submitted and a second one, started after it, has had
\* its items saved without being submitted
C29_Witness ==
    /\ Len(responses) = 2
    /\ responses[1].is_complete
    /\ responses[1].submitted_at # NoTime
    /\ ~responses[2].is_complete
    /\ responses[2].submitted_at = NoTime
    /\ response_items[2] # << >>
    /\ returned # None
    /\ returned.call = "save"
    /\ returned.result = Ok

\* ==================================================== export among submits
\* the q1 items of the responses the export call read for its data sheet
RECURSIVE ItemsRead(_, _)
ItemsRead(rs, q) ==
    IF rs = << >> THEN 0
    ELSE Cardinality({i \in 1..Len(rs[1].items) : rs[1].items[i].question_id = q})
         + ItemsRead(Tail(rs), q)

\* C30: a workbook is built from one snapshot: the total response count on
\* its summary sheet equals the number of response rows on its data sheet,
\* and the response count of a question on the summary sheet counts exactly
\* the items of the responses shown on the data sheet, also when
\* submit_response calls of other responses run interleaved with the export.
C30_OneSnapshot ==
    (output # None /\ output.kind = "xlsx") =>
        LET data == output.sheets[1].rows
            summary == output.sheets[2].rows
        IN /\ Len(data) = 1 + Len(input.responses)
           /\ summary[1][2] = Num(Len(data) - 1)
           /\ summary[4][2] = Num(ItemsRead(input.responses, "q1"))

====
